---- MODULE Spec2Model ----
(***************************************************************************)
(* Model of the DCS persistence engine: app/main.py, mission_time_updater, *)
(* weather_rotator, time_reader and discord_notifier.                      *)
(*                                                                         *)
(* Texts (mission descriptor, process names, scraped time) are sequences   *)
(* of one-character strings, so that the Python string operations the code *)
(* uses (splitlines, join, split, strip, int, str, "in") are computed here *)
(* the way Python computes them.                                           *)
(***************************************************************************)
EXTENDS Integers, Sequences, FiniteSets, TLC

\* ------------------------------------------------------------------------
\* Bounds of the model (not program constants)
\* ------------------------------------------------------------------------

\* Most lines a generated descriptor has in the start_time text specification.
MaxLines == 3

\* ------------------------------------------------------------------------
\* Python values
\* ------------------------------------------------------------------------

\* Optional[...]: None, or a value.
None == [some |-> FALSE]

Some(v) == [some |-> TRUE, val |-> v]

\* ------------------------------------------------------------------------
\* Python str operations, on sequences of characters
\* ------------------------------------------------------------------------

\* The characters str.strip() removes and the regex class \s matches
\* (those of them the model's texts use).
IsSpace(c) == c \in {" ", "\t", "\n", "\r", "\f"}

\* The line boundaries of str.splitlines() (those the model's texts use).
IsLineBreak(c) == c \in {"\n", "\r", "\f"}

IsDigit(c) == c \in {"0", "1", "2", "3", "4", "5", "6", "7", "8", "9"}

DigitVal(c) ==
  CASE c = "0" -> 0 [] c = "1" -> 1 [] c = "2" -> 2 [] c = "3" -> 3
    [] c = "4" -> 4 [] c = "5" -> 5 [] c = "6" -> 6 [] c = "7" -> 7
    [] c = "8" -> 8 [] c = "9" -> 9

DigitChar(d) ==
  CASE d = 0 -> "0" [] d = 1 -> "1" [] d = 2 -> "2" [] d = 3 -> "3"
    [] d = 4 -> "4" [] d = 5 -> "5" [] d = 6 -> "6" [] d = 7 -> "7"
    [] d = 8 -> "8" [] d = 9 -> "9"

\* pat occurs in s at position i.
MatchAt(s, pat, i) ==
  /\ i >= 1
  /\ i + Len(pat) - 1 <= Len(s)
  /\ \A k \in 1..Len(pat) : s[i + k - 1] = pat[k]

\* Python: pat in s
Contains(s, pat) == \E i \in 1..(Len(s) + 1) : MatchAt(s, pat, i)

\* The positions i..j of s, ascending, that satisfy Test
Positions(i, j, Test(_)) ==
  IF j < i THEN <<>> ELSE SelectSeq([k \in 1..(j - i + 1) |-> i + k - 1], Test)

\* The first position >= i where pat occurs in s (0: none).
FindFrom(s, pat, i) ==
  LET At(k) == MatchAt(s, pat, k)
      found == Positions(i, Len(s) - Len(pat) + 1, At)
  IN IF found = <<>> THEN 0 ELSE found[1]

\* A line terminator of splitlines() starts at i: a line break that is not
\* the "\n" of a "\r\n"
IsTerminatorStart(text, i) ==
  /\ IsLineBreak(text[i])
  /\ ~(text[i] = "\n" /\ i > 1 /\ text[i - 1] = "\r")

\* The terminator at i is "\r\n" (2 characters) or one character
TerminatorLen(text, i) ==
  IF text[i] = "\r" /\ i + 1 <= Len(text) /\ text[i + 1] = "\n" THEN 2 ELSE 1

\* Python: text.splitlines() -- the lines without their terminators; a
\* terminator at the very end of the text opens no further line.
SplitLines(text) ==
  LET T(i) == IsTerminatorStart(text, i)
      b == Positions(1, Len(text), T)
      n == Len(b)
      after(k) == IF k = 0 THEN 1 ELSE b[k] + TerminatorLen(text, b[k])
      ended == [k \in 1..n |-> SubSeq(text, after(k - 1), b[k] - 1)]
  IN IF after(n) <= Len(text)
       THEN Append(ended, SubSeq(text, after(n), Len(text)))
       ELSE ended

RECURSIVE JoinFrom(_, _, _)
JoinFrom(lines, sep, i) ==
  IF i > Len(lines) THEN <<>>
  ELSE IF i = Len(lines) THEN lines[i]
  ELSE lines[i] \o sep \o JoinFrom(lines, sep, i + 1)

\* Python: sep.join(lines)
Join(lines, sep) == JoinFrom(lines, sep, 1)

\* Python: s.split(c) for a one-character separator (always >= 1 part).
Split(s, c) ==
  LET T(i) == s[i] = c
      b == Positions(1, Len(s), T)
      n == Len(b)
      after(k) == IF k = 0 THEN 1 ELSE b[k] + 1
  IN [k \in 1..(n + 1) |->
        SubSeq(s, after(k - 1), IF k <= n THEN b[k] - 1 ELSE Len(s))]

RECURSIVE LStrip(_)
LStrip(s) ==
  IF s # <<>> /\ IsSpace(Head(s)) THEN LStrip(Tail(s)) ELSE s

RECURSIVE RStrip(_)
RStrip(s) ==
  IF s # <<>> /\ IsSpace(s[Len(s)]) THEN RStrip(SubSeq(s, 1, Len(s) - 1)) ELSE s

\* Python: s.strip()
Strip(s) == RStrip(LStrip(s))

\* The digits of an int literal: digits, single underscores only between digits.
DigitsOk(s) ==
  /\ s # <<>>
  /\ \A i \in 1..Len(s) : IsDigit(s[i]) \/ s[i] = "_"
  /\ IsDigit(s[1])
  /\ IsDigit(s[Len(s)])
  /\ \A i \in 1..(Len(s) - 1) : ~(s[i] = "_" /\ s[i + 1] = "_")

RECURSIVE DigitsValue(_, _, _)
DigitsValue(s, i, acc) ==
  IF i > Len(s) THEN acc
  ELSE IF s[i] = "_" THEN DigitsValue(s, i + 1, acc)
  ELSE DigitsValue(s, i + 1, 10 * acc + DigitVal(s[i]))

\* Python: int(s) -- None stands for the ValueError it raises.
PyInt(s) ==
  LET t == Strip(s)
      signed == t # <<>> /\ t[1] \in {"+", "-"}
      body == IF signed THEN Tail(t) ELSE t
  IN IF DigitsOk(body)
       THEN Some(IF signed /\ t[1] = "-"
                   THEN 0 - DigitsValue(body, 1, 0)
                   ELSE DigitsValue(body, 1, 0))
       ELSE None

RECURSIVE NatStr(_)
NatStr(n) ==
  IF n < 10 THEN <<DigitChar(n)>>
  ELSE Append(NatStr(n \div 10), DigitChar(n % 10))

\* Python: str(n), as the f-strings format an int.
PyStr(n) == IF n < 0 THEN <<"-">> \o NatStr(0 - n) ELSE NatStr(n)

\* ------------------------------------------------------------------------
\* mission_time_updater.py: the start_time field
\* ------------------------------------------------------------------------

\* MAX_TIME = 86399  (last second in 24h)
MAX_TIME == 86399

\* '"start_time"'
MarkerQuoted == <<"\"", "s", "t", "a", "r", "t", "_", "t", "i", "m", "e", "\"">>

\* '["start_time"]'
MarkerBracketed == <<"[">> \o MarkerQuoted \o <<"]">>

\* if '"start_time"' in line or '["start_time"]' in line
HasStartTimeMarker(line) ==
  Contains(line, MarkerQuoted) \/ Contains(line, MarkerBracketed)

\* The try-block of _parse_start_time for one line:
\*   number = line.strip().split("=")[1].split(",")[0].strip(); int(number)
\* None when it raises (IndexError: no "="; ValueError: not an int).
ParseLineValue(line) ==
  LET parts == Split(Strip(line), "=")
  IN IF Len(parts) < 2 THEN None
     ELSE PyInt(Strip(Split(parts[2], ",")[1]))

RECURSIVE ParseStartTimeFrom(_, _, _)
ParseStartTimeFrom(lines, i, last_value) ==
  IF i > Len(lines) THEN last_value
  ELSE IF HasStartTimeMarker(lines[i]) /\ ParseLineValue(lines[i]).some
    THEN ParseStartTimeFrom(lines, i + 1, ParseLineValue(lines[i]))
    ELSE ParseStartTimeFrom(lines, i + 1, last_value)

\* _parse_start_time(text): the value of the last marker line that parses.
ParseStartTime(text) == ParseStartTimeFrom(SplitLines(text), 1, None)

\* The loop of _replace_start_time: the index of the last marker line (0: none).
LastMarkerIndex(lines) ==
  LET idx == {i \in 1..Len(lines) : HasStartTimeMarker(lines[i])}
  IN IF idx = {} THEN 0 ELSE CHOOSE i \in idx : \A j \in idx : j <= i

\* f'\t["start_time"] = {new_value},'
CanonicalStartTimeLine(new_value) ==
  <<"\t">> \o MarkerBracketed \o <<" ", "=", " ">> \o PyStr(new_value) \o <<",">>

\* _replace_start_time(text, new_value)
ReplaceStartTime(text, new_value) ==
  LET lines == SplitLines(text)
      last_index == LastMarkerIndex(lines)
  IN IF last_index = 0 THEN text
     ELSE Join([lines EXCEPT ![last_index] = CanonicalStartTimeLine(new_value)],
               <<"\n">>)

\* The sum reduced modulo MAX_TIME instead of MAX_TIME + 1
NewTimeModMax(current_start, seconds_to_add) ==
  (current_start + seconds_to_add) % MAX_TIME

\* new_time = (current_start + seconds_to_add) % (MAX_TIME + 1)
NewTime(current_start, seconds_to_add) ==
  (current_start + seconds_to_add) % (MAX_TIME + 1)

\* ------------------------------------------------------------------------
\* weather_rotator.py: the date block
\* ------------------------------------------------------------------------

\* date.today() of the run, for season "realistic" (drawn by the run).
Todays == {<<2026, 11, 3>>, <<2024, 2, 29>>}

\* The season mapping with an unknown tag treated as "realistic"
BuildDateForSeasonUnknownToday(season, today) ==
  CASE season = "summer" -> <<2025, 8, 1>>
    [] season = "winter" -> <<2025, 2, 1>>
    [] season = "autumn" -> <<2025, 10, 1>>
    [] season = "spring" -> <<2025, 5, 1>>
    [] OTHER -> today

\* _build_date_for_season(season) -> (year, month, day)
BuildDateForSeason(season, today) ==
  IF season = "realistic" THEN today
  ELSE CASE season = "summer" -> <<2025, 8, 1>>
         [] season = "winter" -> <<2025, 2, 1>>
         [] season = "autumn" -> <<2025, 10, 1>>
         [] season = "spring" -> <<2025, 5, 1>>
         [] OTHER -> <<2025, 9, 1>>

\* '["date"]'
DateLabel == <<"[", "\"", "d", "a", "t", "e", "\"", "]">>

\* '["Day"]', '["Year"]', '["Month"]'
DayLabel == <<"[", "\"", "D", "a", "y", "\"", "]">>

YearLabel == <<"[", "\"", "Y", "e", "a", "r", "\"", "]">>

MonthLabel == <<"[", "\"", "M", "o", "n", "t", "h", "\"", "]">>

\* 'end of '
EndOf == <<"e", "n", "d", " ", "o", "f", " ">>

\* new_block of _update_date_block: the canonical date block
NewDateBlock(year, month, day) ==
  <<"\t">> \o DateLabel \o <<" ", "=", " ", "\n">>
  \o <<"\t", "{", "\n">>
  \o <<"\t", "\t">> \o DayLabel \o <<" ", "=", " ">> \o PyStr(day) \o <<",", "\n">>
  \o <<"\t", "\t">> \o YearLabel \o <<" ", "=", " ">> \o PyStr(year) \o <<",", "\n">>
  \o <<"\t", "\t">> \o MonthLabel \o <<" ", "=", " ">> \o PyStr(month) \o <<",", "\n">>
  \o <<"\t", "}", ",", " ", "-", "-", " ">> \o EndOf \o DateLabel \o <<"\n">>

\* Regex \s* (greedy) from position i: the first position that is not whitespace.
RECURSIVE SkipWs(_, _)
SkipWs(s, i) ==
  IF i <= Len(s) /\ IsSpace(s[i]) THEN SkipWs(s, i + 1) ELSE i

\* Regex  LABEL\s*=\s*\{.*?\},  matched with LABEL at position j: the position
\* after the first "}," that follows the opening brace (0: no match).
BlockBodyEnd(s, label, j) ==
  IF ~MatchAt(s, label, j) THEN 0
  ELSE LET e == SkipWs(s, j + Len(label))
       IN IF ~MatchAt(s, <<"=">>, e) THEN 0
          ELSE LET b == SkipWs(s, e + 1)
               IN IF ~MatchAt(s, <<"{">>, b) THEN 0
                  ELSE LET c == FindFrom(s, <<"}", ",">>, b + 1)
                       IN IF c = 0 THEN 0 ELSE c + 2

\* The tail without its optional end-of comment: \s* alone
DateTailEndNoComment(s, p) == SkipWs(s, p)

\* The tail  \s*(?:--\s*end of \["date"\])?  from position p: where the match ends.
DateTailEnd(s, p) ==
  LET q == SkipWs(s, p)
  IN IF MatchAt(s, <<"-", "-">>, q)
       /\ MatchAt(s, EndOf \o DateLabel, SkipWs(s, q + 2))
       THEN SkipWs(s, q + 2) + Len(EndOf) + Len(DateLabel)
       ELSE q

\* Where the leading \s* of a match whose label is at j starts: the start of
\* the whitespace run that ends at j - 1 (the leftmost match start).
RECURSIVE WsRunStart(_, _)
WsRunStart(s, j) ==
  IF j > 1 /\ IsSpace(s[j - 1]) THEN WsRunStart(s, j - 1) ELSE j

\* pattern.search(text) of _update_date_block: the leftmost match as
\* [from, to) positions, or None.
RECURSIVE DateSearchFrom(_, _)
DateSearchFrom(s, i) ==
  LET j == FindFrom(s, DateLabel, i)
  IN IF j = 0 THEN None
     ELSE IF BlockBodyEnd(s, DateLabel, j) # 0
       THEN Some([from |-> WsRunStart(s, j),
                  to |-> DateTailEnd(s, BlockBodyEnd(s, DateLabel, j))])
       ELSE DateSearchFrom(s, j + 1)

DateSearch(s) == DateSearchFrom(s, 1)

\* _update_date_block(text, season): pattern.sub(new_block, text, count=1),
\* or None when the pattern is not found.
UpdateDateBlock(text, season, today) ==
  LET m == DateSearch(text)
      d == BuildDateForSeason(season, today)
  IN IF ~m.some THEN None
     ELSE Some(SubSeq(text, 1, m.val.from - 1)
               \o NewDateBlock(d[1], d[2], d[3])
               \o SubSeq(text, m.val.to, Len(text)))

\* ------------------------------------------------------------------------
\* weather_rotator.py: the weather block
\* ------------------------------------------------------------------------

\* '["weather"]'
WeatherLabel == <<"[", "\"", "w", "e", "a", "t", "h", "e", "r", "\"", "]">>

\* '-- end of ["weather"]'
WeatherEndMarker == <<"-", "-", " ">> \o EndOf \o WeatherLabel

\* Regex  \},\s*-- end of \["weather"\]  tried at each "}," from position i on
\* (the lazy .*? grows until the rest matches): the position after the match
\* (0: none).
RECURSIVE WeatherCloseFrom(_, _)
WeatherCloseFrom(s, i) ==
  LET c == FindFrom(s, <<"}", ",">>, i)
  IN IF c = 0 THEN 0
     ELSE IF MatchAt(s, WeatherEndMarker, SkipWs(s, c + 2))
       THEN SkipWs(s, c + 2) + Len(WeatherEndMarker)
       ELSE WeatherCloseFrom(s, c + 1)

\* The match of the weather pattern with its label at j: its end (0: none).
WeatherMatchEnd(s, j) ==
  IF ~MatchAt(s, WeatherLabel, j) THEN 0
  ELSE LET e == SkipWs(s, j + Len(WeatherLabel))
       IN IF ~MatchAt(s, <<"=">>, e) THEN 0
          ELSE LET b == SkipWs(s, e + 1)
               IN IF ~MatchAt(s, <<"{">>, b) THEN 0
                  ELSE WeatherCloseFrom(s, b + 1)

\* pattern.search(text) of _replace_weather_block: the leftmost match.
RECURSIVE WeatherSearchFrom(_, _)
WeatherSearchFrom(s, i) ==
  LET j == FindFrom(s, WeatherLabel, i)
  IN IF j = 0 THEN None
     ELSE IF WeatherMatchEnd(s, j) # 0
       THEN Some([from |-> j, to |-> WeatherMatchEnd(s, j)])
       ELSE WeatherSearchFrom(s, j + 1)

WeatherSearch(s) == WeatherSearchFrom(s, 1)

\* re's expansion of a replacement string given as str: a backslash starts an
\* escape; \n, \t, \r, \f and \\ stand for one character, a backslash before
\* another letter or at the end is "bad escape" (re.error), a backslash before
\* a digit is a group reference, and the pattern has no group (re.error).
\* None stands for the re.error raised.
RECURSIVE ExpandTemplateFrom(_, _, _)
ExpandTemplateFrom(repl, i, acc) ==
  LET b == FindFrom(repl, <<"\\">>, i)
      lit == SubSeq(repl, i, b - 1)
  IN IF b = 0 THEN Some(acc \o SubSeq(repl, i, Len(repl)))
     ELSE IF b = Len(repl) THEN None
     ELSE CASE repl[b + 1] = "n" -> ExpandTemplateFrom(repl, b + 2, acc \o lit \o <<"\n">>)
            [] repl[b + 1] = "t" -> ExpandTemplateFrom(repl, b + 2, acc \o lit \o <<"\t">>)
            [] repl[b + 1] = "r" -> ExpandTemplateFrom(repl, b + 2, acc \o lit \o <<"\r">>)
            [] repl[b + 1] = "f" -> ExpandTemplateFrom(repl, b + 2, acc \o lit \o <<"\f">>)
            [] repl[b + 1] = "\\" -> ExpandTemplateFrom(repl, b + 2, acc \o lit \o <<"\\">>)
            [] OTHER -> None

ExpandTemplate(repl) == ExpandTemplateFrom(repl, 1, <<>>)

\* _replace_weather_block(text, new_weather_block):
\*   "notfound" -> returns None; "error" -> pattern.sub raises re.error;
\*   "ok" -> the new text.
ReplaceWeatherBlock(text, new_weather_block) ==
  LET m == WeatherSearch(text)
      r == ExpandTemplate(new_weather_block)
  IN IF ~m.some THEN [kind |-> "notfound"]
     ELSE IF ~r.some THEN [kind |-> "error"]
     ELSE [kind |-> "ok",
           text |-> SubSeq(text, 1, m.val.from - 1) \o r.val
                    \o SubSeq(text, m.val.to, Len(text))]

\* ------------------------------------------------------------------------
\* weather_rotator.py: the template selector
\* ------------------------------------------------------------------------

\* The clamp of _pick_weather_template: bad_percentage into 0..100
ClampPercentage(bad_percentage) ==
  IF bad_percentage < 0 THEN 0
  ELSE IF bad_percentage > 100 THEN 100
  ELSE bad_percentage

\* The comparison made strict: roll < bad_percentage
ChosenDirStrict(bad_percentage, roll) ==
  IF roll < ClampPercentage(bad_percentage) THEN "bad" ELSE "good"

\* if roll <= bad_percentage: BAD_WEATHER_DIR else: GOOD_WEATHER_DIR
ChosenDir(bad_percentage, roll) ==
  IF roll <= ClampPercentage(bad_percentage) THEN "bad" ELSE "good"

\* random.randint(1, 100): the rolls the selector can draw
Rolls == 1..100

\* ------------------------------------------------------------------------
\* time_reader.py
\* ------------------------------------------------------------------------

\* _convert_hms_to_seconds(hms):  h, m, s = hms.split(":"); any exception -> 0
ConvertHmsToSeconds(hms) ==
  LET parts == Split(hms, ":")
  IN IF Len(parts) # 3 THEN 0
     ELSE IF PyInt(parts[1]).some /\ PyInt(parts[2]).some /\ PyInt(parts[3]).some
       THEN PyInt(parts[1]).val * 3600 + PyInt(parts[2]).val * 60
            + PyInt(parts[3]).val
       ELSE 0

\* ------------------------------------------------------------------------
\* Inputs of the runs: process names, scraped times, descriptors, templates
\* ------------------------------------------------------------------------

\* "DCS_server.exe", the name _kill_dcs_server_if_running looks for
ServerName ==
  <<"D", "C", "S", "_", "s", "e", "r", "v", "e", "r", ".", "e", "x", "e">>

\* A process that is not the server, whose name contains the server's name
LookalikeName ==
  <<"O", "l", "d", "_", "D", "C", "S", "_", "s", "e", "r", "v", "e", "r",
    ".", "e", "x", "e">>

\* An unrelated process
OtherName ==
  <<"n", "o", "t", "e", "p", "a", "d", ".", "e", "x", "e">>

ProcNames == {ServerName, LookalikeName, OtherName}

\* Mission-time texts the WebGUI can show (time_elem.text.strip())
Time100000 ==
  <<"1", "0", ":", "0", "0", ":", "0", "0">>

Time250000 ==
  <<"2", "5", ":", "0", "0", ":", "0", "0">>

TimeShort ==
  <<"1", "2", ":", "3", "0">>

TimeDashes ==
  <<"-", "-", ":", "-", "-", ":", "-", "-">>

TimeTexts == {Time100000, Time250000, TimeShort, TimeDashes}

\* Pieces of a mission descriptor
SampleDateBlock ==
  <<"\t", "[", "\"", "d", "a", "t", "e", "\"", "]", " ", "=", " ", "\n",
    "\t", "{", "\n", "\t", "\t", "[", "\"", "D", "a", "y", "\"", "]", " ",
    "=", " ", "2", "1", ",", "\n", "\t", "\t", "[", "\"", "Y", "e", "a", "r",
    "\"", "]", " ", "=", " ", "2", "0", "1", "6", ",", "\n", "\t", "\t", "[",
    "\"", "M", "o", "n", "t", "h", "\"", "]", " ", "=", " ", "6", ",", "\n",
    "\t", "}", ",", " ", "-", "-", " ", "e", "n", "d", " ", "o", "f", " ",
    "[", "\"", "d", "a", "t", "e", "\"", "]", "\n">>

SampleWeatherBlock ==
  <<"\t", "[", "\"", "w", "e", "a", "t", "h", "e", "r", "\"", "]", " ", "=",
    " ", "\n", "\t", "{", "\n", "\t", "\t", "[", "\"", "w", "i", "n", "d",
    "\"", "]", " ", "=", " ", "\n", "\t", "\t", "{", "\n", "\t", "\t", "}",
    ",", " ", "-", "-", " ", "e", "n", "d", " ", "o", "f", " ", "[", "\"",
    "w", "i", "n", "d", "\"", "]", "\n", "\t", "}", ",", " ", "-", "-", " ",
    "e", "n", "d", " ", "o", "f", " ", "[", "\"", "w", "e", "a", "t", "h",
    "e", "r", "\"", "]", "\n">>

SampleNestedStart ==
  <<"\t", "\t", "[", "\"", "s", "t", "a", "r", "t", "_", "t", "i", "m", "e",
    "\"", "]", " ", "=", " ", "1", "0", "0", ",", "\n">>

SampleTopStart ==
  <<"\t", "[", "\"", "s", "t", "a", "r", "t", "_", "t", "i", "m", "e", "\"",
    "]", " ", "=", " ", "3", "6", "0", "0", "0", ",", "\n">>

SampleTrailer ==
  <<"}", " ", "-", "-", " ", "e", "n", "d", " ", "o", "f", " ", "m", "i",
    "s", "s", "i", "o", "n", "\n">>

\* Descriptors an archive's "mission" entry can hold: a full one, one with no
\* start_time field, one with no date block, one with no weather block.
DescFull ==
  SampleDateBlock \o SampleWeatherBlock \o SampleNestedStart \o SampleTopStart
  \o SampleTrailer

DescNoStart == SampleDateBlock \o SampleWeatherBlock \o SampleTrailer

DescNoDate == SampleWeatherBlock \o SampleTopStart \o SampleTrailer

DescNoWeather == SampleDateBlock \o SampleTopStart \o SampleTrailer

Descriptors == {DescFull, DescNoStart, DescNoDate, DescNoWeather}

\* Weather templates (*.config files): a plain block, and one whose text holds
\* a backslash.
TemplatePlain ==
  <<"[", "\"", "w", "e", "a", "t", "h", "e", "r", "\"", "]", " ", "=", " ",
    "\n", "{", "\n", "\t", "[", "\"", "t", "y", "p", "e", "\"", "]", " ",
    "=", " ", "1", ",", "\n", "}", ",", " ", "-", "-", " ", "e", "n", "d",
    " ", "o", "f", " ", "[", "\"", "w", "e", "a", "t", "h", "e", "r", "\"",
    "]">>

TemplateBackslash ==
  <<"[", "\"", "w", "e", "a", "t", "h", "e", "r", "\"", "]", " ", "=", " ",
    "\n", "{", "\n", "\t", "[", "\"", "n", "a", "m", "e", "\"", "]", " ",
    "=", " ", "\"", "a", "\\", "n", "b", "\"", ",", "\n", "}", ",", " ", "-",
    "-", " ", "e", "n", "d", " ", "o", "f", " ", "[", "\"", "w", "e", "a",
    "t", "h", "e", "r", "\"", "]">>

\* What a pool directory can be: missing, or the set of its *.config files.
MissingDir == [exists |-> FALSE, files |-> {}]

Dir(files) == [exists |-> TRUE, files |-> files]

Pools == {MissingDir, Dir({}), Dir({TemplatePlain}),
          Dir({TemplatePlain, TemplateBackslash})}

\* ------------------------------------------------------------------------
\* Files: Path.read_text / Path.write_text in text mode
\* ------------------------------------------------------------------------

\* read_text(encoding="utf-8"): universal newlines, "\r\n" and "\r" read as "\n"
RECURSIVE ReadTextFrom(_, _, _)
ReadTextFrom(data, i, acc) ==
  LET b == FindFrom(data, <<"\r">>, i)
  IN IF b = 0 THEN acc \o SubSeq(data, i, Len(data))
     ELSE ReadTextFrom(data, b + TerminatorLen(data, b),
                       acc \o SubSeq(data, i, b - 1) \o <<"\n">>)

ReadText(data) == ReadTextFrom(data, 1, <<>>)

\* write_text(encoding="utf-8") on the server's platform (Windows, as the
\* configured paths say): each "\n" is written as os.linesep, "\r\n"
WriteText(txt) == Join(Split(txt, "\n"), <<"\r", "\n">>)

\* ------------------------------------------------------------------------
\* State
\* ------------------------------------------------------------------------

VARIABLES
  pc,           \* <<module, step>>: where the run is
  cfg,          \* dcs_persistence_config.json as json.loads reads it
  miz_exists,   \* Path(miz_path).exists()
  archive,      \* the archive's "mission" entry (None: no such entry)
  tempdir,      \* the workflow's TemporaryDirectory exists
  scratch,      \* tempdir / "mission" (None: no such file)
  procs,        \* psutil.process_iter(): the running processes, in scan order
  next_pid,     \* the pid the next spawned process gets
  text,         \* the workflow's local: the descriptor text being edited
  seconds,      \* main's local: the seconds the time source returned
  template,     \* rotate_weather_in_miz's local: the template chosen
  pick,         \* what _pick_weather_template saw and drew
  ret,          \* the value the current workflow returned
  exit_status,  \* the SystemExit code of the run (-1: still running)
  webhook_up,   \* the Discord webhook answers during this run
  log,          \* history: the external effects so far, in order
  probe         \* the function under test, its inputs and its result

vars == <<pc, cfg, miz_exists, archive, tempdir, scratch, procs, next_pid, text,
          seconds, template, pick, ret, exit_status, webhook_up, log, probe>>

\* The variables of a run of main()
run_vars == <<pc, cfg, miz_exists, archive, tempdir, scratch, procs, next_pid,
              text, seconds, template, pick, ret, exit_status, webhook_up, log>>

\* ------------------------------------------------------------------------
\* Initial states of a run
\* ------------------------------------------------------------------------

\* Most processes running when the run starts.
MaxProcs == 2

\* The first pid of the process table
FirstPid == 100

\* weather_bad_weather_percentage values of the configurations
Percentages == {0 - 20, 250}

\* weather_season values of the configurations
Seasons == {"winter", "realistic"}

\* send_errors_to_discord and error_discord_webhook (a URL, or null)
Notifiers == {[send |-> FALSE, webhook |-> "url"], [send |-> TRUE, webhook |-> "url"],
              [send |-> TRUE, webhook |-> "null"]}

Config(rd, em, mp, h, w, s, b, n) ==
  [readable |-> rd, empty |-> em, mission_path |-> mp,
   hour_persistence_enabled |-> h, weather_rotation_enabled |-> w,
   weather_season |-> s, weather_bad_weather_percentage |-> b,
   send_errors_to_discord |-> n.send, error_discord_webhook |-> n.webhook]

\* The configuration files: unreadable (absent, not JSON), empty ({}), without
\* mission_path, and the valid ones. Fields no code reads (the season and the
\* percentage when weather rotation is off) are held at one value.
Configs ==
  {Config(FALSE, FALSE, FALSE, FALSE, FALSE, "winter", 40, n)
     : n \in {[send |-> FALSE, webhook |-> "url"]}}
  \cup {Config(TRUE, TRUE, FALSE, FALSE, FALSE, "winter", 40, n)
     : n \in {[send |-> FALSE, webhook |-> "url"]}}
  \cup {Config(TRUE, FALSE, FALSE, h, TRUE, "winter", 40, n)
     : h \in BOOLEAN, n \in Notifiers}
  \cup {Config(TRUE, FALSE, TRUE, h, FALSE, "winter", 40, n)
     : h \in BOOLEAN, n \in Notifiers}
  \cup {Config(TRUE, FALSE, TRUE, h, TRUE, s, b, n)
     : h \in BOOLEAN, s \in Seasons, b \in Percentages, n \in Notifiers}

\* The process tables: up to MaxProcs processes, pids ascending in scan order
ProcTables ==
  UNION {{[i \in 1..k |-> [pid |-> FirstPid + i - 1, name |-> names[i]]]
            : names \in [1..k -> ProcNames]} : k \in 0..MaxProcs}

NotPicked == [seen |-> FALSE]

Init ==
  /\ pc = <<"main", "config">>
  /\ cfg \in Configs
  /\ miz_exists \in BOOLEAN
  /\ archive \in (IF miz_exists THEN {None} \cup {Some(d) : d \in Descriptors}
                  ELSE {None})
  /\ tempdir = FALSE
  /\ scratch = None
  /\ procs \in ProcTables
  /\ next_pid = FirstPid + MaxProcs
  /\ text = <<>>
  /\ seconds = 0
  /\ template = <<>>
  /\ pick = NotPicked
  /\ ret = "none"
  /\ exit_status = 0 - 1
  /\ webhook_up \in (IF cfg.readable /\ cfg.send_errors_to_discord
                         /\ cfg.error_discord_webhook = "url"
                       THEN BOOLEAN ELSE {TRUE})
  /\ log = <<>>
  /\ probe = [fn |-> "none"]

\* ------------------------------------------------------------------------
\* Shared pieces of the steps
\* ------------------------------------------------------------------------

\* An entry of the history: module wf did ev, with outcome out, on n
Ev(w, e, o, n) == [wf |-> w, ev |-> e, out |-> o, n |-> n]

\* discord_notifier.notify_discord_error / notify_discord_info: how a call can
\* end.  "unsent": returned without sending (config unavailable, or disabled);
\* "raised": .strip() of a null webhook raises; "sent": webhook.execute() ran;
\* "lost": it raised inside _send_embed_to_webhook, which logs and returns.
NotifyOutcomes ==
  IF ~cfg.readable \/ cfg.empty THEN {"unsent"}
  ELSE IF cfg.error_discord_webhook = "null" THEN {"raised"}
  ELSE IF cfg.send_errors_to_discord
    THEN {IF webhook_up THEN "sent" ELSE "lost"}
  ELSE {"unsent"}

\* The modules of the two workflows
Workflows == {"time", "weather"}

\* Where main() continues when workflow w returns
RetPc(w) == <<"main", IF w = "time" THEN "time_ret" ELSE "weather_ret">>

\* fail_local that calls the notifier twice
FailLocalEventsTwice(w, o) ==
  <<Ev(w, "notify_error", o, 0), Ev(w, "notify_error", o, 0)>>

\* fail_local(reason): notify_discord_error in a try, return False
FailLocalEvents(w, o) == <<Ev(w, "notify_error", o, 0)>>

\* fail_local whose result would be True
ReturnFailLocalTrue(w, lg) ==
  \E o \in NotifyOutcomes :
    /\ log' = lg \o FailLocalEvents(w, o) \o <<Ev(w, "return", "True", 0)>>
    /\ ret' = "True"
    /\ pc' = RetPc(w)

\* "return fail_local(...)" outside the temporary directory
ReturnFailLocal(w, lg) ==
  \E o \in NotifyOutcomes :
    /\ log' = lg \o FailLocalEvents(w, o) \o <<Ev(w, "return", "False", 0)>>
    /\ ret' = "False"
    /\ pc' = RetPc(w)

\* A return or an exception out of a directory made with mkdtemp and never
\* removed
LeaveTempdirKept(w, lg, r) ==
  /\ tempdir' = tempdir
  /\ scratch' = scratch
  /\ log' = Append(lg, Ev(w, "return", r, 0))
  /\ ret' = r
  /\ pc' = RetPc(w)

\* Leaving the "with tempfile.TemporaryDirectory()" block by a return or an
\* exception: the directory and the file in it are removed, then main() goes on
LeaveTempdir(w, lg, r) ==
  /\ tempdir' = FALSE
  /\ scratch' = None
  /\ log' = lg \o <<Ev(w, "rmtree", "ok", 0), Ev(w, "return", r, 0)>>
  /\ ret' = r
  /\ pc' = RetPc(w)

\* "return fail_local(...)" inside the with block
FailInTempdir(w, lg) ==
  \E o \in NotifyOutcomes : LeaveTempdir(w, lg \o FailLocalEvents(w, o), "False")

\* An exception no code catches, raised inside the with block
RaiseInTempdir(w, lg) == LeaveTempdir(w, lg, "raise")

\* ------------------------------------------------------------------------
\* Process control (the same code in mission_time_updater and weather_rotator)
\* ------------------------------------------------------------------------

\* if "DCS_server.exe" in name
IsServerProcess(name) == Contains(name, ServerName)

\* The loop without its test of the name: the first process of the scan
FirstMatchAny(ps) == IF ps = <<>> THEN 0 ELSE 1

\* The for loop of _kill_dcs_server_if_running: the index in the scan of the
\* first process the test selects (0: none)
FirstMatch(ps) ==
  LET idx == {i \in 1..Len(ps) : IsServerProcess(ps[i].name)}
  IN IF idx = {} THEN 0 ELSE CHOOSE i \in idx : \A j \in idx : i <= j

\* time.sleep(15)
QuiescenceSeconds == 15

\* The kill without the time.sleep that follows it
KilledEventsNoWait(w, pid) == <<Ev(w, "kill", "ok", pid)>>

\* After a kill that did not raise: the log line, time.sleep(15), return True
KilledEvents(w, pid) ==
  <<Ev(w, "kill", "ok", pid), Ev(w, "sleep", "ok", QuiescenceSeconds)>>

\* The table without its i-th process
RemoveAt(ps, i) == SubSeq(ps, 1, i - 1) \o SubSeq(ps, i + 1, Len(ps))

\* The stop step with notify_discord_info outside any try: an exception of
\* the notifier leaves the workflow
KillDcsServerNotifyUnguarded(w) ==
  /\ pc = <<w, "kill">>
  /\ LET m == FirstMatch(procs)
     IN IF m = 0
          THEN /\ log' = Append(log, Ev(w, "scan", "not_running", 0))
               /\ pc' = <<w, "extract">>
               /\ UNCHANGED <<procs, ret>>
          ELSE \E o \in NotifyOutcomes :
                 LET lg == log \o <<Ev(w, "scan", "running", procs[m].pid),
                                    Ev(w, "notify_info", o, 0)>>
                 IN IF o = "raised"
                      THEN /\ log' = Append(lg, Ev(w, "return", "raise", 0))
                           /\ ret' = "raise"
                           /\ pc' = RetPc(w)
                           /\ UNCHANGED procs
                      ELSE /\ procs' = RemoveAt(procs, m)
                           /\ log' = lg \o KilledEvents(w, procs[m].pid)
                           /\ pc' = <<w, "extract">>
                           /\ UNCHANGED ret
  /\ UNCHANGED <<cfg, miz_exists, archive, tempdir, scratch, next_pid, text,
                 seconds, template, pick, exit_status, webhook_up, probe>>

\* _kill_dcs_server_if_running(), called at step "kill" of workflow w
KillDcsServerIfRunning(w) ==
  /\ pc = <<w, "kill">>
  /\ LET m == FirstMatch(procs)
     IN IF m = 0
          THEN /\ log' = Append(log, Ev(w, "scan", "not_running", 0))
               /\ pc' = <<w, "extract">>
               /\ UNCHANGED <<procs, ret>>
          ELSE \E o \in NotifyOutcomes :
                 LET lg == log \o <<Ev(w, "scan", "running", procs[m].pid),
                                    Ev(w, "notify_info", o, 0)>>
                 IN \/ /\ procs' = RemoveAt(procs, m)
                       /\ log' = lg \o KilledEvents(w, procs[m].pid)
                       /\ pc' = <<w, "extract">>
                       /\ UNCHANGED ret
                    \/ /\ UNCHANGED procs
                       /\ ReturnFailLocal(w, Append(lg, Ev(w, "kill", "raised",
                                                           procs[m].pid)))
  /\ UNCHANGED <<cfg, miz_exists, archive, tempdir, scratch, next_pid, text,
                 seconds, template, pick, exit_status, webhook_up, probe>>

\* A start step that spawns the server a second time after the first Popen
StartDcsServerTwice(w) ==
  /\ pc = <<w, "start">>
  /\ \E o \in NotifyOutcomes :
       \/ /\ procs' = procs \o <<[pid |-> next_pid, name |-> ServerName],
                                 [pid |-> next_pid + 1, name |-> ServerName]>>
          /\ next_pid' = next_pid + 2
          /\ log' = log \o <<Ev(w, "popen", "ok", next_pid),
                             Ev(w, "popen", "ok", next_pid + 1),
                             Ev(w, "notify_info", o, 0),
                             Ev(w, "return", "True", 0)>>
          /\ ret' = "True"
       \/ /\ UNCHANGED <<procs, next_pid>>
          /\ log' = log \o <<Ev(w, "popen", "raised", 0),
                             Ev(w, "notify_error", o, 0),
                             Ev(w, "return", "False", 0)>>
          /\ ret' = "False"
  /\ pc' = RetPc(w)
  /\ UNCHANGED <<cfg, miz_exists, archive, tempdir, scratch, text, seconds,
                 template, pick, exit_status, webhook_up, probe>>

\* _start_dcs_server(), called at step "start" of workflow w; the workflow
\* returns its result
StartDcsServer(w) ==
  /\ pc = <<w, "start">>
  /\ \E o \in NotifyOutcomes :
       \/ /\ procs' = Append(procs, [pid |-> next_pid, name |-> ServerName])
          /\ next_pid' = next_pid + 1
          /\ log' = log \o <<Ev(w, "popen", "ok", next_pid),
                             Ev(w, "notify_info", o, 0),
                             Ev(w, "return", "True", 0)>>
          /\ ret' = "True"
       \/ /\ UNCHANGED <<procs, next_pid>>
          /\ log' = log \o <<Ev(w, "popen", "raised", 0),
                             Ev(w, "notify_error", o, 0),
                             Ev(w, "return", "False", 0)>>
          /\ ret' = "False"
  /\ pc' = RetPc(w)
  /\ UNCHANGED <<cfg, miz_exists, archive, tempdir, scratch, text, seconds,
                 template, pick, exit_status, webhook_up, probe>>

\* ------------------------------------------------------------------------
\* Archive steps (the same code in both workflows)
\* ------------------------------------------------------------------------

\* How subprocess.run of 7z.exe can end: exit code 0, a non-zero exit code, or
\* an exception (7z.exe is not at SEVEN_ZIP_PATH), which _run_7zip lets through
SevenZipOutcomes == {"ok", "nonzero", "raised"}

\* _run_7zip without its test of the exit code
SevenZipSucceededUnlessRaised(r) == r # "raised"

\* _run_7zip returns True: not (result.returncode != 0)
SevenZipSucceeded(r) == r = "ok"

\* _run_7zip on a non-zero exit code: notify_discord_error in a try, return False
RunSevenZipFailedEvents(w, o) == <<Ev(w, "notify_error", o, 0)>>

\* The workflow without "if not miz.exists()"
CheckArchiveUnchecked(w) ==
  /\ pc = <<w, "check">>
  /\ pc' = <<w, "kill">>
  /\ log' = Append(log, Ev(w, "check", "ok", 0))
  /\ UNCHANGED <<cfg, miz_exists, archive, tempdir, scratch, procs, next_pid,
                 text, seconds, template, pick, ret, exit_status, webhook_up,
                 probe>>

\* if not miz.exists(): return fail_local(...)
CheckArchive(w) ==
  /\ pc = <<w, "check">>
  /\ IF ~miz_exists
       THEN ReturnFailLocal(w, Append(log, Ev(w, "check", "missing", 0)))
       ELSE /\ pc' = <<w, "kill">>
            /\ log' = Append(log, Ev(w, "check", "ok", 0))
            /\ UNCHANGED ret
  /\ UNCHANGED <<cfg, miz_exists, archive, tempdir, scratch, procs, next_pid,
                 text, seconds, template, pick, exit_status, webhook_up, probe>>

\* Entering the with block; _run_7zip(["e", miz, "mission", -o tempdir, "-y"]);
\* if not mission_path.exists()
ExtractMission(w) ==
  /\ pc = <<w, "extract">>
  /\ \E r \in SevenZipOutcomes :
       LET lg == log \o <<Ev(w, "mkdtemp", "ok", 0), Ev(w, "7z_e", r, 0)>>
       IN CASE SevenZipSucceeded(r) /\ archive.some ->
                 /\ tempdir' = TRUE
                 /\ scratch' = archive
                 /\ log' = Append(lg, Ev(w, "exists", "ok", 0))
                 /\ pc' = <<w, "read">>
                 /\ UNCHANGED ret
            [] SevenZipSucceeded(r) /\ ~archive.some ->
                 FailInTempdir(w, Append(lg, Ev(w, "exists", "missing", 0)))
            [] r = "nonzero" ->
                 \E o \in NotifyOutcomes :
                   FailInTempdir(w, lg \o RunSevenZipFailedEvents(w, o))
            [] r = "raised" -> RaiseInTempdir(w, lg)
  /\ UNCHANGED <<cfg, miz_exists, archive, procs, next_pid, text, seconds,
                 template, pick, exit_status, webhook_up, probe>>

\* text = mission_path.read_text(encoding="utf-8", errors="ignore") in a try
ReadMission(w, next) ==
  /\ pc = <<w, "read">>
  /\ \/ /\ text' = ReadText(scratch.val)
        /\ log' = Append(log, Ev(w, "read", "ok", 0))
        /\ pc' = <<w, next>>
        /\ UNCHANGED <<tempdir, scratch, ret>>
     \/ /\ FailInTempdir(w, Append(log, Ev(w, "read", "raised", 0)))
        /\ UNCHANGED text
  /\ UNCHANGED <<cfg, miz_exists, archive, procs, next_pid, seconds, template,
                 pick, exit_status, webhook_up, probe>>

\* The write step putting the new text into the archive as well as into the
\* scratch file
WriteMissionIntoArchive(w) ==
  /\ pc = <<w, "write">>
  /\ \/ /\ scratch' = Some(WriteText(text))
        /\ archive' = Some(WriteText(text))
        /\ log' = Append(log, Ev(w, "write", "ok", 0))
        /\ pc' = <<w, "update">>
        /\ UNCHANGED <<tempdir, ret>>
     \/ /\ FailInTempdir(w, Append(log, Ev(w, "write", "raised", 0)))
        /\ UNCHANGED archive
  /\ UNCHANGED <<cfg, miz_exists, procs, next_pid, text, seconds,
                 template, pick, exit_status, webhook_up, probe>>

\* mission_path.write_text(text, encoding="utf-8") in a try
WriteMission(w) ==
  /\ pc = <<w, "write">>
  /\ \/ /\ scratch' = Some(WriteText(text))
        /\ log' = Append(log, Ev(w, "write", "ok", 0))
        /\ pc' = <<w, "update">>
        /\ UNCHANGED <<tempdir, ret>>
     \/ FailInTempdir(w, Append(log, Ev(w, "write", "raised", 0)))
  /\ UNCHANGED <<cfg, miz_exists, archive, procs, next_pid, text, seconds,
                 template, pick, exit_status, webhook_up, probe>>

\* _run_7zip(["u", miz, mission_path, "-y"]); on success the with block ends
UpdateArchive(w) ==
  /\ pc = <<w, "update">>
  /\ \E r \in SevenZipOutcomes :
       LET lg == Append(log, Ev(w, "7z_u", r, 0))
       IN CASE SevenZipSucceeded(r) ->
                 /\ archive' = scratch
                 /\ tempdir' = FALSE
                 /\ scratch' = None
                 /\ log' = Append(lg, Ev(w, "rmtree", "ok", 0))
                 /\ pc' = <<w, "start">>
                 /\ UNCHANGED ret
            [] r = "nonzero" ->
                 /\ \E o \in NotifyOutcomes :
                      FailInTempdir(w, lg \o RunSevenZipFailedEvents(w, o))
                 /\ UNCHANGED archive
            [] r = "raised" ->
                 /\ RaiseInTempdir(w, lg)
                 /\ UNCHANGED archive
  /\ UNCHANGED <<cfg, miz_exists, procs, next_pid, text, seconds, template,
                 pick, exit_status, webhook_up, probe>>

\* ------------------------------------------------------------------------
\* mission_time_updater.update_miz_start_time(miz_path, seconds_to_add)
\* ------------------------------------------------------------------------

T_CheckArchive == CheckArchive("time")

T_Kill == KillDcsServerIfRunning("time")

T_Extract == ExtractMission("time")

T_Read == ReadMission("time", "edit")

\* The update with a missing start_time taken as nothing to change: the text
\* is handed on as it is
UpdateStartTimeMissingIsNoChange(txt, seconds_to_add) ==
  LET current_start == ParseStartTime(txt)
  IN IF ~current_start.some THEN Some(txt)
     ELSE Some(ReplaceStartTime(txt, NewTime(current_start.val, seconds_to_add)))

\* current_start = _parse_start_time(text); new_time; _replace_start_time:
\* None when no start_time is found, else the new text
UpdateStartTime(txt, seconds_to_add) ==
  LET current_start == ParseStartTime(txt)
  IN IF ~current_start.some THEN None
     ELSE Some(ReplaceStartTime(txt, NewTime(current_start.val, seconds_to_add)))

\* The edit step going on to the write when no start_time was found
T_EditKeepsGoing ==
  /\ pc = <<"time", "edit">>
  /\ LET new_text == UpdateStartTime(text, seconds)
     IN /\ text' = IF new_text.some THEN new_text.val ELSE text
        /\ log' = Append(log, Ev("time", "edit",
                                 IF new_text.some THEN "ok" ELSE "notfound", 0))
        /\ pc' = <<"time", "write">>
  /\ UNCHANGED <<cfg, miz_exists, archive, tempdir, scratch, procs, next_pid,
                 seconds, template, pick, ret, exit_status, webhook_up, probe>>

T_Edit ==
  /\ pc = <<"time", "edit">>
  /\ LET new_text == UpdateStartTime(text, seconds)
     IN IF ~new_text.some
          THEN /\ FailInTempdir("time", Append(log, Ev("time", "edit", "notfound", 0)))
               /\ UNCHANGED text
          ELSE /\ text' = new_text.val
               /\ log' = Append(log, Ev("time", "edit", "ok", 0))
               /\ pc' = <<"time", "write">>
               /\ UNCHANGED <<tempdir, scratch, ret>>
  /\ UNCHANGED <<cfg, miz_exists, archive, procs, next_pid, seconds, template,
                 pick, exit_status, webhook_up, probe>>

T_Write == WriteMission("time")

T_Update == UpdateArchive("time")

T_Start == StartDcsServer("time")

\* ------------------------------------------------------------------------
\* weather_rotator.rotate_weather_in_miz()
\* ------------------------------------------------------------------------

\* Load config; skip when disabled; mission_path; season and percentage
W_LoadConfig ==
  /\ pc = <<"weather", "config">>
  /\ IF ~cfg.readable \/ cfg.empty
       THEN ReturnFailLocal("weather", log)
       ELSE IF ~cfg.weather_rotation_enabled
         THEN /\ ret' = "True"
              /\ log' = Append(log, Ev("weather", "return", "True", 0))
              /\ pc' = RetPc("weather")
         ELSE IF ~cfg.mission_path
           THEN ReturnFailLocal("weather", log)
           ELSE /\ pc' = <<"weather", "check">>
                /\ UNCHANGED <<log, ret>>
  /\ UNCHANGED <<cfg, miz_exists, archive, tempdir, scratch, procs, next_pid,
                 text, seconds, template, pick, exit_status, webhook_up, probe>>

W_CheckArchive == CheckArchive("weather")

W_Kill == KillDcsServerIfRunning("weather")

W_Extract == ExtractMission("weather")

W_Read == ReadMission("weather", "date")

\* STEP 3: new_text = _update_date_block(text, season)
W_Date ==
  /\ pc = <<"weather", "date">>
  /\ \E today \in Todays :
       LET new_text == UpdateDateBlock(text, cfg.weather_season, today)
       IN IF ~new_text.some
            THEN /\ FailInTempdir("weather",
                                  Append(log, Ev("weather", "date", "notfound", 0)))
                 /\ UNCHANGED text
            ELSE /\ text' = new_text.val
                 /\ log' = Append(log, Ev("weather", "date", "ok", 0))
                 /\ pc' = <<"weather", "pick">>
                 /\ UNCHANGED <<tempdir, scratch, ret>>
  /\ UNCHANGED <<cfg, miz_exists, archive, procs, next_pid, seconds, template,
                 pick, exit_status, webhook_up, probe>>

\* The selector falling back to the other pool when the chosen one has no
\* candidate
PickCandidatesFallback(chosen, bad_dir, good_dir) ==
  LET chosen_dir == IF chosen = "bad" THEN bad_dir ELSE good_dir
      other_dir == IF chosen = "bad" THEN good_dir ELSE bad_dir
      of(dir) == IF ~dir.exists THEN {} ELSE dir.files
  IN IF of(chosen_dir) = {} THEN of(other_dir) ELSE of(chosen_dir)

\* _pick_weather_template after the roll chose a pool, with the pool
\* directories as they are: the templates it can return (none: it returns
\* None); reading the chosen file can fail, which returns None too
PickCandidates(chosen, bad_dir, good_dir) ==
  LET chosen_dir == IF chosen = "bad" THEN bad_dir ELSE good_dir
  IN IF ~chosen_dir.exists THEN {} ELSE chosen_dir.files

\* A pool directory exists and holds at least one *.config file
HasCandidates(dir) == dir.exists /\ dir.files # {}

\* STEP 4: template = _pick_weather_template(bad_pct), for each roll of
\* random.randint(1, 100) and each state of the two pool directories; pick
\* keeps the pool chosen and whether each pool had candidates
W_Pick ==
  /\ pc = <<"weather", "pick">>
  /\ \E chosen \in {ChosenDir(cfg.weather_bad_weather_percentage, roll)
                      : roll \in Rolls}, bad_dir \in Pools, good_dir \in Pools :
       LET cands == PickCandidates(chosen, bad_dir, good_dir)
       IN /\ pick' = [seen |-> TRUE, chosen |-> chosen,
                      bad_has |-> HasCandidates(bad_dir),
                      good_has |-> HasCandidates(good_dir)]
          /\ \/ \E t \in cands :
                  /\ template' = t
                  /\ log' = Append(log, Ev("weather", "pick", chosen, 0))
                  /\ pc' = <<"weather", "replace">>
                  /\ UNCHANGED <<tempdir, scratch, ret>>
             \/ /\ FailInTempdir("weather",
                                 Append(log, Ev("weather", "pick", "none", 0)))
                /\ UNCHANGED template
  /\ UNCHANGED <<cfg, miz_exists, archive, procs, next_pid, text, seconds,
                 exit_status, webhook_up, probe>>

\* STEP 5: replaced = _replace_weather_block(text, template)
W_Replace ==
  /\ pc = <<"weather", "replace">>
  /\ LET replaced == ReplaceWeatherBlock(text, template)
     IN CASE replaced.kind = "ok" ->
               /\ text' = replaced.text
               /\ log' = Append(log, Ev("weather", "replace", "ok", 0))
               /\ pc' = <<"weather", "write">>
               /\ UNCHANGED <<tempdir, scratch, ret>>
          [] replaced.kind = "notfound" ->
               /\ FailInTempdir("weather",
                                Append(log, Ev("weather", "replace", "notfound", 0)))
               /\ UNCHANGED text
          [] replaced.kind = "error" ->
               /\ RaiseInTempdir("weather",
                                 Append(log, Ev("weather", "replace", "raised", 0)))
               /\ UNCHANGED text
  /\ UNCHANGED <<cfg, miz_exists, archive, procs, next_pid, seconds, template,
                 pick, exit_status, webhook_up, probe>>

W_Write == WriteMission("weather")

W_Update == UpdateArchive("weather")

W_Start == StartDcsServer("weather")

\* ------------------------------------------------------------------------
\* main.py
\* ------------------------------------------------------------------------

\* fail(reason): notify_discord_error in a try, raise SystemExit(1)
MainFail(lg) ==
  \E o \in NotifyOutcomes :
    /\ log' = lg \o <<Ev("main", "notify_error", o, 0), Ev("main", "exit", "1", 1)>>
    /\ exit_status' = 1
    /\ pc' = <<"main", "exit">>

\* raise SystemExit(0)
MainExitClean(lg) ==
  /\ log' = Append(lg, Ev("main", "exit", "0", 0))
  /\ exit_status' = 0
  /\ pc' = <<"main", "exit">>

\* An exception that leaves main(): the interpreter prints it and exits with 1
MainCrash(lg) ==
  /\ log' = Append(lg, Ev("main", "exit", "traceback", 1))
  /\ exit_status' = 1
  /\ pc' = <<"main", "exit">>

\* main() without "if not miz_path"
M_LoadConfigNoPathCheck ==
  /\ pc = <<"main", "config">>
  /\ IF ~cfg.readable \/ cfg.empty
       THEN MainFail(log)
       ELSE IF ~cfg.hour_persistence_enabled /\ ~cfg.weather_rotation_enabled
         THEN MainExitClean(log)
         ELSE /\ pc' = IF cfg.hour_persistence_enabled
                         THEN <<"main", "time">> ELSE <<"weather", "config">>
              /\ UNCHANGED <<log, exit_status>>
  /\ UNCHANGED <<cfg, miz_exists, archive, tempdir, scratch, procs, next_pid,
                 text, seconds, template, pick, ret, webhook_up, probe>>

\* cfg = load_config(); the checks of cfg and mission_path; the two flags
M_LoadConfig ==
  /\ pc = <<"main", "config">>
  /\ IF ~cfg.readable \/ cfg.empty \/ ~cfg.mission_path
       THEN MainFail(log)
       ELSE IF ~cfg.hour_persistence_enabled /\ ~cfg.weather_rotation_enabled
         THEN MainExitClean(log)
         ELSE /\ pc' = IF cfg.hour_persistence_enabled
                         THEN <<"main", "time">> ELSE <<"weather", "config">>
              /\ UNCHANGED <<log, exit_status>>
  /\ UNCHANGED <<cfg, miz_exists, archive, tempdir, scratch, procs, next_pid,
                 text, seconds, template, pick, ret, webhook_up, probe>>

\* extract_time_and_mission(expected_miz_path): (False, None, None) when the
\* page could not be read or shows another mission, else
\* (True, mission_time, _convert_hms_to_seconds(mission_time))
ExtractTimeAndMission(page) ==
  IF ~page.matched THEN [success |-> FALSE, hms |-> None, seconds |-> None]
  ELSE [success |-> TRUE, hms |-> Some(page.mission_time),
        seconds |-> Some(ConvertHmsToSeconds(page.mission_time))]

\* What the WebGUI shows: nothing usable, or the mission with its time
Pages ==
  {[matched |-> FALSE, mission_time |-> <<>>]}
  \cup {[matched |-> TRUE, mission_time |-> t] : t \in TimeTexts}

\* The hour-persistence block without "if not success"
M_ExtractTimeUnchecked ==
  /\ pc = <<"main", "time">>
  /\ \E page \in Pages :
       LET r == ExtractTimeAndMission(page)
           n == IF r.seconds.some THEN r.seconds.val ELSE 0
       IN /\ seconds' = n
          /\ log' = log \o <<Ev("main", "time_source",
                                IF r.success THEN "ok" ELSE "failed", 0),
                             Ev("main", "save_result", "ok", n)>>
          /\ pc' = <<"time", "check">>
  /\ UNCHANGED <<cfg, miz_exists, archive, tempdir, scratch, procs, next_pid,
                 text, template, pick, ret, exit_status, webhook_up, probe>>

\* The hour-persistence block of main(), up to the call of the workflow:
\* the time source, its two checks, save_result
M_ExtractTime ==
  /\ pc = <<"main", "time">>
  /\ \E page \in Pages :
       LET r == ExtractTimeAndMission(page)
           lg == Append(log, Ev("main", "time_source",
                                IF r.success THEN "ok" ELSE "failed", 0))
       IN IF ~r.success \/ ~r.hms.some \/ ~r.seconds.some
            THEN /\ MainFail(lg)
                 /\ UNCHANGED seconds
            ELSE \/ /\ seconds' = r.seconds.val
                    /\ log' = Append(lg, Ev("main", "save_result", "ok",
                                            r.seconds.val))
                    /\ pc' = <<"time", "check">>
                    /\ UNCHANGED exit_status
                 \/ /\ MainFail(Append(lg, Ev("main", "save_result", "raised", 0)))
                    /\ UNCHANGED seconds
  /\ UNCHANGED <<cfg, miz_exists, archive, tempdir, scratch, procs, next_pid,
                 text, template, pick, ret, webhook_up, probe>>

\* main() that goes on to the weather rotation whatever update_miz_start_time
\* returned
M_AfterTimeResultIgnored ==
  /\ pc = <<"main", "time_ret">>
  /\ IF cfg.weather_rotation_enabled
       THEN /\ pc' = <<"weather", "config">>
            /\ UNCHANGED <<log, exit_status>>
       ELSE MainExitClean(log)
  /\ ret' = "none"
  /\ UNCHANGED <<cfg, miz_exists, archive, tempdir, scratch, procs, next_pid,
                 text, seconds, template, pick, webhook_up, probe>>

\* if not update_miz_start_time(miz_path, seconds): fail(...)
M_AfterTime ==
  /\ pc = <<"main", "time_ret">>
  /\ CASE ret = "False" -> MainFail(log)
       [] ret = "raise" -> MainCrash(log)
       [] ret = "True" ->
            IF cfg.weather_rotation_enabled
              THEN /\ pc' = <<"weather", "config">>
                   /\ UNCHANGED <<log, exit_status>>
              ELSE MainExitClean(log)
  /\ ret' = "none"
  /\ UNCHANGED <<cfg, miz_exists, archive, tempdir, scratch, procs, next_pid,
                 text, seconds, template, pick, webhook_up, probe>>

\* if not rotate_weather_in_miz(): fail(...)
M_AfterWeather ==
  /\ pc = <<"main", "weather_ret">>
  /\ CASE ret = "False" -> MainFail(log)
       [] ret = "raise" -> MainCrash(log)
       [] ret = "True" -> MainExitClean(log)
  /\ ret' = "none"
  /\ UNCHANGED <<cfg, miz_exists, archive, tempdir, scratch, procs, next_pid,
                 text, seconds, template, pick, webhook_up, probe>>

\* ------------------------------------------------------------------------
\* The run
\* ------------------------------------------------------------------------

Next ==
  \/ M_LoadConfig
  \/ M_ExtractTime
  \/ T_CheckArchive
  \/ T_Kill
  \/ T_Extract
  \/ T_Read
  \/ T_Edit
  \/ T_Write
  \/ T_Update
  \/ T_Start
  \/ M_AfterTime
  \/ W_LoadConfig
  \/ W_CheckArchive
  \/ W_Kill
  \/ W_Extract
  \/ W_Read
  \/ W_Date
  \/ W_Pick
  \/ W_Replace
  \/ W_Write
  \/ W_Update
  \/ W_Start
  \/ M_AfterWeather

Spec == Init /\ [][Next]_vars

\* ------------------------------------------------------------------------
\* The start_time update on its own: lines 213-224 of update_miz_start_time
\* applied to generated descriptors and deltas
\* ------------------------------------------------------------------------

LineNested100 ==
  <<"\t", "\t", "[", "\"", "s", "t", "a", "r", "t", "_", "t", "i", "m", "e",
    "\"", "]", " ", "=", " ", "1", "0", "0", ",">>

LineTop36000 ==
  <<"\t", "[", "\"", "s", "t", "a", "r", "t", "_", "t", "i", "m", "e", "\"",
    "]", " ", "=", " ", "3", "6", "0", "0", "0", ",">>

LineLast86399 ==
  <<"[", "\"", "s", "t", "a", "r", "t", "_", "t", "i", "m", "e", "\"", "]",
    " ", "=", " ", "8", "6", "3", "9", "9", ",">>

\* A start_time line whose value int() rejects
LineUnparsable ==
  <<"[", "\"", "s", "t", "a", "r", "t", "_", "t", "i", "m", "e", "\"", "]",
    " ", "=", " ", "n", "i", "l", ",">>

\* A line that mentions the marker and has no "="
LineComment ==
  <<"-", "-", " ", "\"", "s", "t", "a", "r", "t", "_", "t", "i", "m", "e",
    "\"">>

\* A line without the marker
LineOther ==
  <<"[", "\"", "x", "\"", "]", " ", "=", " ", "1", ",">>

StartTimeLines == {LineNested100, LineTop36000, LineLast86399, LineUnparsable,
                   LineComment, LineOther}

\* The descriptors generated: 1..MaxLines lines, each ended by "\n", the last
\* one ended or not
StartTimeTexts ==
  UNION {{Join(ls, <<"\n">>) \o fin : ls \in [1..n -> StartTimeLines],
                                     fin \in {<<>>, <<"\n">>}}
           : n \in 1..MaxLines}

\* seconds_to_add: none, one second, within a day, a day, more than a day
Deltas == {0, 1, 50400, 86400, 90000, 172801}

\* The run's variables while a function is probed on its own
ProbeOnly ==
  /\ pc = <<"probe", "call">>
  /\ cfg = Config(TRUE, FALSE, TRUE, TRUE, TRUE, "winter", 40,
                  [send |-> FALSE, webhook |-> "url"])
  /\ miz_exists = TRUE
  /\ archive = None
  /\ tempdir = FALSE
  /\ scratch = None
  /\ procs = <<>>
  /\ next_pid = FirstPid
  /\ text = <<>>
  /\ seconds = 0
  /\ template = <<>>
  /\ pick = NotPicked
  /\ ret = "none"
  /\ exit_status = 0 - 1
  /\ webhook_up = TRUE
  /\ log = <<>>

InitStartTime ==
  /\ ProbeOnly
  /\ probe \in {[fn |-> "start_time", text |-> t, seconds_to_add |-> d,
                 done |-> FALSE, new_text |-> None]
                  : t \in StartTimeTexts, d \in Deltas}

\* current_start = _parse_start_time(text) ... new_text = _replace_start_time
ApplyUpdateStartTime ==
  /\ probe.fn = "start_time"
  /\ ~probe.done
  /\ probe' = [probe EXCEPT !.done = TRUE,
                            !.new_text = UpdateStartTime(probe.text,
                                                         probe.seconds_to_add)]
  /\ UNCHANGED run_vars

NextStartTime == ApplyUpdateStartTime

SpecStartTime == InitStartTime /\ [][NextStartTime]_vars

\* ------------------------------------------------------------------------
\* The template selector on its own: _pick_weather_template for every roll
\* ------------------------------------------------------------------------

\* bad_percentage values given to the selector: below, at and above the ends
PickPercentages == {0 - 20, 0, 1, 40, 99, 100, 250}

\* _pick_weather_template(bad_percentage) for one roll: what it can return
\* (None; or the text of a file of the chosen directory)
PickWeatherTemplate(bad_percentage, roll, bad_dir, good_dir) ==
  {None} \cup {Some(t) : t \in PickCandidates(ChosenDir(bad_percentage, roll),
                                              bad_dir, good_dir)}

InitPick ==
  /\ ProbeOnly
  /\ probe \in {[fn |-> "pick", bad_percentage |-> b, roll |-> r, bad_dir |-> bd,
                 good_dir |-> gd, done |-> FALSE, chosen |-> "none",
                 template |-> None]
                  : b \in PickPercentages, r \in Rolls, bd \in Pools,
                    gd \in Pools}

ApplyPickWeatherTemplate ==
  /\ probe.fn = "pick"
  /\ ~probe.done
  /\ \E t \in PickWeatherTemplate(probe.bad_percentage, probe.roll,
                                  probe.bad_dir, probe.good_dir) :
       probe' = [probe EXCEPT !.done = TRUE,
                              !.chosen = ChosenDir(probe.bad_percentage,
                                                   probe.roll),
                              !.template = t]
  /\ UNCHANGED run_vars

NextPick == ApplyPickWeatherTemplate

SpecPick == InitPick /\ [][NextPick]_vars

\* ------------------------------------------------------------------------
\* The season mapping on its own: _build_date_for_season for every tag
\* ------------------------------------------------------------------------

\* weather_season values: the four seasons, "realistic", and tags the mapping
\* does not know (another case, other words, the empty text)
SeasonTags == {"summer", "winter", "autumn", "spring", "realistic",
               "Winter", "bogus", "none", ""}

\* date.today() on the days the function is probed
ProbeTodays ==
  {<<y, m, d>> : y \in {2024, 2025, 2026}, m \in {2, 9, 12}, d \in {1, 28}}

InitSeason ==
  /\ ProbeOnly
  /\ probe \in {[fn |-> "season", season |-> s, today |-> t, done |-> FALSE,
                 date |-> <<0, 0, 0>>]
                  : s \in SeasonTags, t \in ProbeTodays}

\* year, month, day = _build_date_for_season(season)
ApplyBuildDateForSeason ==
  /\ probe.fn = "season"
  /\ ~probe.done
  /\ probe' = [probe EXCEPT !.done = TRUE,
                            !.date = BuildDateForSeason(probe.season,
                                                        probe.today)]
  /\ UNCHANGED run_vars

NextSeason == ApplyBuildDateForSeason

SpecSeason == InitSeason /\ [][NextSeason]_vars

\* ------------------------------------------------------------------------
\* The date-block replace on its own: _update_date_block on generated
\* descriptors
\* ------------------------------------------------------------------------

\* How a date block is laid out: the text from the label to the opening brace,
\* around each field, and the closing "},"
StyleCanonical ==
  [open |-> <<" ", "=", " ", "\n", "\t", "{", "\n">>,
   pre |-> <<"\t", "\t">>, eq |-> <<" ", "=", " ">>, post |-> <<",", "\n">>,
   close |-> <<"\t", "}", ",">>]

StyleCompact ==
  [open |-> <<"=", "{">>,
   pre |-> <<>>, eq |-> <<"=">>, post |-> <<",">>,
   close |-> <<"}", ",">>]

StyleSpaced ==
  [open |-> <<" ", " ", "=", " ", " ", "\n", "\n", " ", " ", "{", " ", " ", "\n">>,
   pre |-> <<" ", " ", " ">>, eq |-> <<" ", " ", " ", "=", " ", " ", " ">>, post |-> <<" ", ",", "\n", "\n">>,
   close |-> <<" ", " ", "}", ",">>]

DateStyles == {StyleCanonical, StyleCompact, StyleSpaced}

\* The fields of the block in the descriptor, with their values
DateFields == {<<DayLabel, <<"2", "1">>>>, <<YearLabel, <<"2", "0", "1", "6">>>>,
               <<MonthLabel, <<"6">>>>}

\* Every order of the three fields
FieldOrders ==
  {o \in [1..3 -> DateFields] : \A i, j \in 1..3 : i # j => o[i] # o[j]}

\* The end-of comment after the block: absent, usual, without a space
DateMarkerUsual ==
  <<" ", "-", "-", " ", "e", "n", "d", " ", "o", "f", " ", "[", "\"", "d",
    "a", "t", "e", "\"", "]">>

DateMarkerTight ==
  <<"-", "-", "e", "n", "d", " ", "o", "f", " ", "[", "\"", "d", "a", "t",
    "e", "\"", "]">>

DateMarkers == {<<>>, DateMarkerUsual, DateMarkerTight}

\* A date block: label, fields in the given order, "}," and the comment
DateBlockText(style, order, marker) ==
  LET field(k) == style.pre \o order[k][1] \o style.eq \o order[k][2] \o style.post
  IN DateLabel \o style.open \o field(1) \o field(2) \o field(3)
       \o style.close \o marker

\* What precedes the block: nothing; the head of the descriptor; a line with a
\* scalar named date and the word in a comment
DatePrefixHead ==
  <<"m", "i", "s", "s", "i", "o", "n", " ", "=", " ", "\n", "{", "\n", "\t">>

DatePrefixScalar ==
  <<"m", "i", "s", "s", "i", "o", "n", " ", "=", " ", "\n", "{", "\n", "\t",
    "[", "\"", "d", "a", "t", "e", "\"", "]", " ", "=", " ", "5", ",", " ",
    "-", "-", " ", "\"", "d", "a", "t", "e", "\"", "\n", "\t">>

DatePrefixes == {<<>>, DatePrefixHead, DatePrefixScalar}

\* What follows the block: nothing; another field; a second, nested date block
DateSuffixField ==
  <<"\n", "\t", "[", "\"", "x", "\"", "]", " ", "=", " ", "1", ",", "\n",
    "}">>

DateSuffixSecondBlock ==
  <<"\n", "\t", "[", "\"", "t", "r", "i", "g", "\"", "]", " ", "=", " ",
    "\n", "\t", "{", "\n", "\t", "\t", "[", "\"", "d", "a", "t", "e", "\"",
    "]", " ", "=", " ", "\n", "\t", "\t", "{", "\n", "\t", "\t", "\t", "[",
    "\"", "D", "a", "y", "\"", "]", " ", "=", " ", "1", ",", "\n", "\t",
    "\t", "}", ",", " ", "-", "-", " ", "e", "n", "d", " ", "o", "f", " ",
    "[", "\"", "d", "a", "t", "e", "\"", "]", "\n", "\t", "}", ",", "\n",
    "}">>

DateSuffixes == {<<>>, DateSuffixField, DateSuffixSecondBlock}

InitDate ==
  /\ ProbeOnly
  /\ probe \in {[fn |-> "date", prefix |-> p,
                 block |-> DateBlockText(st, o, mk), suffix |-> sf,
                 season |-> se, today |-> t, done |-> FALSE, new_text |-> None]
                  : p \in DatePrefixes, st \in DateStyles, o \in FieldOrders,
                    mk \in DateMarkers, sf \in DateSuffixes,
                    se \in Seasons, t \in Todays}

\* new_text = _update_date_block(text, season)
ApplyUpdateDateBlock ==
  /\ probe.fn = "date"
  /\ ~probe.done
  /\ probe' = [probe EXCEPT
                 !.done = TRUE,
                 !.new_text = UpdateDateBlock(
                                probe.prefix \o probe.block \o probe.suffix,
                                probe.season, probe.today)]
  /\ UNCHANGED run_vars

NextDate == ApplyUpdateDateBlock

SpecDate == InitDate /\ [][NextDate]_vars

\* ------------------------------------------------------------------------
\* The weather-block replace on its own: _replace_weather_block on generated
\* descriptors and templates
\* ------------------------------------------------------------------------

\* Weather blocks of a descriptor: with nested tables, on one line
WeatherBlockNested ==
  <<"[", "\"", "w", "e", "a", "t", "h", "e", "r", "\"", "]", " ", "=", " ",
    "\n", "\t", "{", "\n", "\t", "\t", "[", "\"", "w", "i", "n", "d", "\"",
    "]", " ", "=", " ", "\n", "\t", "\t", "{", "\n", "\t", "\t", "\t", "[",
    "\"", "s", "p", "e", "e", "d", "\"", "]", " ", "=", " ", "3", ",", "\n",
    "\t", "\t", "}", ",", " ", "-", "-", " ", "e", "n", "d", " ", "o", "f",
    " ", "[", "\"", "w", "i", "n", "d", "\"", "]", "\n", "\t", "\t", "[",
    "\"", "f", "o", "g", "\"", "]", " ", "=", " ", "0", ",", "\n", "\t", "}",
    ",", " ", "-", "-", " ", "e", "n", "d", " ", "o", "f", " ", "[", "\"",
    "w", "e", "a", "t", "h", "e", "r", "\"", "]">>

WeatherBlockCompact ==
  <<"[", "\"", "w", "e", "a", "t", "h", "e", "r", "\"", "]", "=", "{", "[",
    "\"", "f", "o", "g", "\"", "]", "=", "0", ",", "}", ",", "-", "-", " ",
    "e", "n", "d", " ", "o", "f", " ", "[", "\"", "w", "e", "a", "t", "h",
    "e", "r", "\"", "]">>

\* The block of the descriptor (<<>>: the descriptor has none)
WeatherBlocks == {<<>>, WeatherBlockNested, WeatherBlockCompact}

\* What precedes the block: nothing; the head of the descriptor with a scalar
\* named weather
WeatherPrefixHead ==
  <<"m", "i", "s", "s", "i", "o", "n", " ", "=", " ", "\n", "{", "\n", "\t",
    "[", "\"", "w", "e", "a", "t", "h", "e", "r", "\"", "]", " ", "=", " ",
    "1", ",", "\n", "\t">>

WeatherPrefixes == {<<>>, WeatherPrefixHead}

\* What follows the block: nothing; another field; a second weather block
WeatherSuffixField ==
  <<"\n", "\t", "[", "\"", "x", "\"", "]", " ", "=", " ", "1", ",", "\n",
    "}">>

WeatherSuffixSecondBlock ==
  <<"\n", "\t", "[", "\"", "w", "e", "a", "t", "h", "e", "r", "\"", "]", " ",
    "=", " ", "\n", "\t", "{", "\n", "\t", "\t", "[", "\"", "f", "o", "g",
    "\"", "]", " ", "=", " ", "9", ",", "\n", "\t", "}", ",", " ", "-", "-",
    " ", "e", "n", "d", " ", "o", "f", " ", "[", "\"", "w", "e", "a", "t",
    "h", "e", "r", "\"", "]", "\n", "}">>

WeatherSuffixes == {<<>>, WeatherSuffixField, WeatherSuffixSecondBlock}

\* Template files whose text holds a backslash before a letter re rejects,
\* and a doubled backslash
TemplateBadEscape ==
  <<"[", "\"", "w", "e", "a", "t", "h", "e", "r", "\"", "]", " ", "=", " ",
    "\n", "{", "\n", "\t", "[", "\"", "n", "a", "m", "e", "\"", "]", " ",
    "=", " ", "\"", "c", ":", "\\", "d", "c", "s", "\"", ",", "\n", "}", ",",
    " ", "-", "-", " ", "e", "n", "d", " ", "o", "f", " ", "[", "\"", "w",
    "e", "a", "t", "h", "e", "r", "\"", "]">>

TemplateDoubled ==
  <<"[", "\"", "w", "e", "a", "t", "h", "e", "r", "\"", "]", " ", "=", " ",
    "\n", "{", "\n", "\t", "[", "\"", "n", "a", "m", "e", "\"", "]", " ",
    "=", " ", "\"", "a", "\\", "\\", "b", "\"", ",", "\n", "}", ",", " ",
    "-", "-", " ", "e", "n", "d", " ", "o", "f", " ", "[", "\"", "w", "e",
    "a", "t", "h", "e", "r", "\"", "]">>

\* The contents of template files: also an empty file
Templates == {<<>>, TemplatePlain, TemplateBackslash, TemplateBadEscape,
              TemplateDoubled}

InitWeather ==
  /\ ProbeOnly
  /\ probe \in {[fn |-> "weather", prefix |-> p, block |-> b, suffix |-> sf,
                 template |-> t, done |-> FALSE, replaced |-> [kind |-> "none"]]
                  : p \in WeatherPrefixes, b \in WeatherBlocks,
                    sf \in WeatherSuffixes, t \in Templates}

\* replaced = _replace_weather_block(text, template)
ApplyReplaceWeatherBlock ==
  /\ probe.fn = "weather"
  /\ ~probe.done
  /\ probe' = [probe EXCEPT
                 !.done = TRUE,
                 !.replaced = ReplaceWeatherBlock(
                                probe.prefix \o probe.block \o probe.suffix,
                                probe.template)]
  /\ UNCHANGED run_vars

NextWeather == ApplyReplaceWeatherBlock

SpecWeather == InitWeather /\ [][NextWeather]_vars

\* ------------------------------------------------------------------------
\* Properties
\* ------------------------------------------------------------------------

\* The positions of the history
LogIndex == 1..Len(log)

\* The value the start_time update read, and the one a later read finds
ProbedStart == ParseStartTime(probe.text)
WrittenStart == ParseStartTime(probe.new_text.val)

\* C1: when the current start_time v is in 0..86399 and the elapsed time d is
\* non-negative, the value the update writes is (v + d) mod 86400, which lies
\* in 0..86399.
C1_NewStartTimeWraps ==
  (/\ probe.fn = "start_time"
   /\ probe.done
   /\ ProbedStart.some
   /\ ProbedStart.val \in 0..86399
   /\ probe.seconds_to_add >= 0)
  => /\ probe.new_text.some
     /\ WrittenStart.some
     /\ WrittenStart.val = (ProbedStart.val + probe.seconds_to_add) % 86400
     /\ WrittenStart.val \in 0..86399

\* C1 case: 10:00:00 plus 25 hours wraps to 11:00:00
C1_Witness ==
  /\ probe.fn = "start_time"
  /\ probe.done
  /\ ProbedStart = Some(36000)
  /\ probe.seconds_to_add = 90000
  /\ WrittenStart = Some(39600)

\* The text in which only the last marker line of txt is replaced by the
\* canonical line: all characters before that line and all after it, its own
\* terminator and the end of the text included, are those of txt
OnlyLastMarkerLineReplaced(txt, new_value) ==
  LET T(i) == IsTerminatorStart(txt, i)
      b == Positions(1, Len(txt), T)
      lines == SplitLines(txt)
      last_index == LastMarkerIndex(lines)
      first == IF last_index = 1 THEN 1
               ELSE b[last_index - 1] + TerminatorLen(txt, b[last_index - 1])
      last == first + Len(lines[last_index]) - 1
  IN SubSeq(txt, 1, first - 1) \o CanonicalStartTimeLine(new_value)
       \o SubSeq(txt, last + 1, Len(txt))

\* C2: for a descriptor with at least one marker line, the update changes
\* only the last marker line, which becomes the canonical line; every other
\* line, every terminator and the end of the text stay as they were.
C2_OnlyLastMarkerLineChanged ==
  (/\ probe.fn = "start_time"
   /\ probe.done
   /\ probe.new_text.some)
  => probe.new_text.val
       = OnlyLastMarkerLineReplaced(
           probe.text, (ProbedStart.val + probe.seconds_to_add) % 86400)

\* C3: a workflow whose archive does not exist does nothing but fail: it
\* scans, kills and starts no process, extracts nothing, and returns False.
C3_NoArchiveNoProcessControl ==
  ~miz_exists
  => /\ \A i \in LogIndex :
          log[i].wf \in Workflows
          => /\ log[i].ev \in {"check", "notify_error", "return"}
             /\ log[i].ev = "return" => log[i].out = "False"
     /\ \A w \in Workflows : pc[1] = w => pc[2] \in {"config", "check"}
     /\ \A w \in Workflows : pc = RetPc(w) => ret = "False"

\* C3 case: the weather workflow has failed on the missing archive
C3_Witness ==
  /\ ~miz_exists
  /\ pc = RetPc("weather")
  /\ ret = "False"
  /\ \E i \in LogIndex : log[i] = Ev("weather", "check", "missing", 0)

\* The steps of a workflow in their order (check the archive, stop the
\* server, extract, read, edit, write, update the archive, start the server),
\* each with the entries it logs
StepRank(e) ==
  CASE e = "check" -> 1
    [] e \in {"scan", "kill", "sleep"} -> 2
    [] e \in {"mkdtemp", "7z_e", "exists"} -> 3
    [] e = "read" -> 4
    [] e \in {"edit", "date", "pick", "replace"} -> 5
    [] e = "write" -> 6
    [] e = "7z_u" -> 7
    [] e = "popen" -> 8
    [] OTHER -> 0

\* The order of the three text edits of the weather workflow
EditRank(e) == CASE e = "date" -> 1 [] e = "pick" -> 2 [] e = "replace" -> 3
                 [] OTHER -> 0

\* The outcomes that make a step fail
FailedOutcomes == {"missing", "raised", "nonzero", "notfound", "none"}

\* C4: each workflow runs its steps in the fixed order (check the archive,
\* stop the server, extract, read, edit, write, update the archive, start the
\* server), skipping none and repeating none; after the first step that
\* fails no later step runs and the workflow does not return True; and it
\* returns True only after the server was started.
C4_FixedOrderFailFast ==
  \A w \in Workflows :
    LET IsStep(e) == e.wf = w /\ StepRank(e.ev) > 0
        steps == SelectSeq(log, IsStep)
        n == Len(steps)
    IN /\ n > 0 => StepRank(steps[1].ev) = 1
       /\ \A k \in 1..(n - 1) :
            /\ StepRank(steps[k].ev) <= StepRank(steps[k + 1].ev)
            /\ StepRank(steps[k + 1].ev) <= StepRank(steps[k].ev) + 1
            /\ StepRank(steps[k].ev) = StepRank(steps[k + 1].ev)
               => EditRank(steps[k].ev) <= EditRank(steps[k + 1].ev)
       /\ \A k, l \in 1..n : k < l => steps[k].ev # steps[l].ev
       /\ \A k \in 1..n :
            steps[k].out \in FailedOutcomes
            => /\ k = n
               /\ \A j \in LogIndex :
                    (log[j].wf = w /\ log[j].ev = "return")
                    => log[j].out # "True"
               /\ pc = RetPc(w) => ret # "True"
       /\ (pc = RetPc(w) /\ ret = "True")
          => (n > 0 /\ steps[n].ev = "popen" /\ steps[n].out = "ok")

\* C4 case: the archive update of the weather workflow has failed after all
\* the earlier steps, and the workflow has returned False
C4_Witness ==
  /\ pc = RetPc("weather")
  /\ ret = "False"
  /\ \E i \in LogIndex : log[i] = Ev("weather", "7z_u", "nonzero", 0)
  /\ \E i \in LogIndex : log[i] = Ev("weather", "replace", "ok", 0)

\* C5: after an extraction that ends with a non-zero exit code the workflow
\* reads no descriptor, edits, writes and updates nothing, returns False, and
\* a start of the server (there is none) could only follow a kill of the
\* same workflow.
C5_ExtractionFailureAborts ==
  \A i \in LogIndex :
    (log[i].ev = "7z_e" /\ log[i].out = "nonzero")
    => /\ \A j \in LogIndex :
            j > i => /\ log[j].ev \notin {"read", "edit", "date", "pick",
                                          "replace", "write", "7z_u"}
                     /\ log[j].ev = "popen"
                        => \E k \in LogIndex :
                             /\ k < i
                             /\ log[k].wf = log[i].wf
                             /\ log[k].ev = "kill"
                             /\ log[k].out = "ok"
       /\ \E j \in LogIndex :
            j > i /\ log[j] = Ev(log[i].wf, "return", "False", 0)
       /\ pc = RetPc(log[i].wf) => ret = "False"

\* C5 case: the extraction failed after the server had been stopped, and
\* main() has ended with status 1
C5_Witness ==
  /\ \E i, k \in LogIndex :
       /\ k < i
       /\ log[i] = Ev("time", "7z_e", "nonzero", 0)
       /\ log[k].wf = "time" /\ log[k].ev = "kill" /\ log[k].out = "ok"
  /\ exit_status = 1

\* The positions in the scan of the processes the test of the code selects
Matching == {i \in 1..Len(procs) : IsServerProcess(procs[i].name)}

C8_OnlyExactNameKilled ==
  [][\A i \in 1..Len(procs) :
       procs[i].name # ServerName
       => \E j \in 1..Len(procs') : procs'[j] = procs[i]]_vars

\* C9: when the kill raises, the stop step fails: the workflow returns
\* False and neither extracts, edits, updates the archive nor starts the
\* server.
C9_KillFailureAborts ==
  \A i \in LogIndex :
    (log[i].ev = "kill" /\ log[i].out = "raised")
    => /\ \E j \in LogIndex :
            j > i /\ log[j] = Ev(log[i].wf, "return", "False", 0)
       /\ \A j \in LogIndex :
            j > i => /\ log[j].ev \in {"notify_error", "return", "exit"}
                     /\ log[j].ev = "return" => log[j].out = "False"
       /\ pc = RetPc(log[i].wf) => ret = "False"

\* C9 case: the kill raised in the weather workflow and main() ended with 1
C9_Witness ==
  /\ \E i \in LogIndex :
       log[i].wf = "weather" /\ log[i].ev = "kill" /\ log[i].out = "raised"
  /\ exit_status = 1

\* C10: the weight is clamped to 0..100, the roll is in 1..100, and the bad
\* pool is chosen exactly when roll <= clamped weight, otherwise the good
\* pool; a weight <= 0 never chooses the bad pool and a weight >= 100 never
\* the good pool; a template returned comes from the chosen pool.
C10_PoolChosenByRoll ==
  (probe.fn = "pick" /\ probe.done)
  => LET weight == probe.bad_percentage
         clamped == IF weight < 0 THEN 0 ELSE IF weight > 100 THEN 100 ELSE weight
     IN /\ probe.roll \in 1..100
        /\ probe.chosen \in {"bad", "good"}
        /\ probe.chosen = "bad" <=> probe.roll <= clamped
        /\ weight <= 0 => probe.chosen = "good"
        /\ weight >= 100 => probe.chosen = "bad"
        /\ probe.template.some
           => probe.template.val
                \in (IF probe.chosen = "bad" THEN probe.bad_dir
                     ELSE probe.good_dir).files

\* C10 case: weight 250 is clamped to 100 and the roll 100 chooses the bad
\* pool, from which a template is returned
C10_Witness ==
  /\ probe.fn = "pick"
  /\ probe.done
  /\ probe.bad_percentage = 250
  /\ probe.roll = 100
  /\ probe.chosen = "bad"
  /\ probe.template.some

\* The pool the roll chose had candidates
ChosenPoolHasCandidates ==
  IF pick.chosen = "bad" THEN pick.bad_has ELSE pick.good_has

\* C11: when the directory of the chosen pool is missing or holds no
\* candidate, the selector returns no template, whatever the other pool
\* holds; the weather workflow then replaces, writes and updates nothing,
\* starts no server and returns False.
C11_EmptyPoolFailsWithoutFallback ==
  (pick.seen /\ ~ChosenPoolHasCandidates)
  => /\ template = <<>>
     /\ \E i \in LogIndex : log[i] = Ev("weather", "pick", "none", 0)
     /\ \A i \in LogIndex :
          log[i].wf = "weather"
          => log[i].ev \notin {"replace", "write", "7z_u", "popen"}
     /\ pc \in {RetPc("weather"), <<"main", "exit">>}
     /\ pc = RetPc("weather") => ret = "False"

\* C11 case: the roll chose the bad pool, which has no candidate while the
\* good pool has some, and the run has ended with status 1
C11_Witness ==
  /\ pick.seen
  /\ pick.chosen = "bad"
  /\ ~pick.bad_has
  /\ pick.good_has
  /\ exit_status = 1

\* C12: summer, winter, autumn and spring give 1 August, 1 February,
\* 1 October and 1 May 2025 whatever the current date; "realistic" gives the
\* current date; every other tag gives 1 September 2025.
C12_SeasonDateMapping ==
  (probe.fn = "season" /\ probe.done)
  => /\ probe.season = "summer" => probe.date = <<2025, 8, 1>>
     /\ probe.season = "winter" => probe.date = <<2025, 2, 1>>
     /\ probe.season = "autumn" => probe.date = <<2025, 10, 1>>
     /\ probe.season = "spring" => probe.date = <<2025, 5, 1>>
     /\ probe.season = "realistic" => probe.date = probe.today
     /\ probe.season \notin {"summer", "winter", "autumn", "spring", "realistic"}
        => probe.date = <<2025, 9, 1>>

\* C12 case: the tag "bogus" on 28 December 2026 gives 1 September 2025
C12_Witness ==
  /\ probe.fn = "season"
  /\ probe.done
  /\ probe.season = "bogus"
  /\ probe.today = <<2026, 12, 28>>
  /\ probe.date = <<2025, 9, 1>>

\* C13: whatever the order of the Day, Month and Year fields, the whitespace
\* inside the block and the presence of the end-of comment, the replace
\* succeeds and puts the same canonical block with the season's date where the
\* first date block was; apart from whitespace next to the block, the text
\* before and after it, other date-like text included, stays as it was.
C13_DateBlockVariantsReplacedOnce ==
  (probe.fn = "date" /\ probe.done)
  => /\ probe.new_text.some
     /\ LET new == probe.new_text.val
            d == BuildDateForSeason(probe.season, probe.today)
            canon == NewDateBlock(d[1], d[2], d[3])
            a == RStrip(probe.prefix)
            b == LStrip(probe.suffix)
        IN /\ Len(new) >= Len(a) + Len(canon) + Len(b)
           /\ SubSeq(new, 1, Len(a)) = a
           /\ SubSeq(new, Len(a) + 1, Len(a) + Len(canon)) = canon
           /\ SubSeq(new, Len(new) - Len(b) + 1, Len(new)) = b
           /\ \A i \in (Len(a) + Len(canon) + 1)..(Len(new) - Len(b)) :
                IsSpace(new[i])

\* C13 case: a compact block with Month first and no comment, after a scalar
\* named date and before a second date block, replaced for the winter date
C13_Witness ==
  /\ probe.fn = "date"
  /\ probe.done
  /\ probe.new_text.some
  /\ probe.prefix = DatePrefixScalar
  /\ probe.suffix = DateSuffixSecondBlock
  /\ \E o \in FieldOrders :
       /\ o[1][1] = MonthLabel
       /\ probe.block = DateBlockText(StyleCompact, o, <<>>)
  /\ probe.season = "winter"
  /\ Contains(probe.new_text.val, NewDateBlock(2025, 2, 1))

\* C14: when the descriptor has a weather block, the replace puts the text
\* of the template, character for character, where the first block (label to
\* end-of comment) was and leaves the rest as it was; when the descriptor has
\* none, it reports that the block was not found.
C14_WeatherBlockReplacedVerbatim ==
  (probe.fn = "weather" /\ probe.done)
  => IF probe.block = <<>>
       THEN probe.suffix # WeatherSuffixSecondBlock
            => probe.replaced.kind = "notfound"
       ELSE /\ probe.replaced.kind = "ok"
            /\ probe.replaced.text
                 = probe.prefix \o probe.template \o probe.suffix

\* C15: when the time source does not report a match, the run ends at once
\* with status 1 and no workflow does anything (no scan, no kill, no archive
\* operation); the time workflow runs only after a matched result whose
\* seconds value was saved and handed to it.
C15_TimeSourceFailureIsFatal ==
  /\ (\E i \in LogIndex : log[i] = Ev("main", "time_source", "failed", 0))
     => /\ pc = <<"main", "exit">>
        /\ exit_status = 1
        /\ \A j \in LogIndex : log[j].wf = "main"
        /\ \A j \in LogIndex : log[j].ev # "save_result"
  /\ (pc[1] = "time" \/ \E j \in LogIndex : log[j].wf = "time")
     => /\ \E i \in LogIndex : log[i] = Ev("main", "time_source", "ok", 0)
        /\ \E i \in LogIndex : log[i] = Ev("main", "save_result", "ok", seconds)

\* C15 case: the server runs, the archive exists, hour persistence is on, and
\* the run has ended on a time source that reported no match
C15_Witness ==
  /\ \E i \in LogIndex : log[i] = Ev("main", "time_source", "failed", 0)
  /\ cfg.hour_persistence_enabled
  /\ miz_exists
  /\ archive.some
  /\ Matching # {}
  /\ exit_status = 1

\* C16: when the configuration cannot be read, is empty or has no
\* mission_path, the run ends with status 1 and does nothing else: no time
\* source call, no process control, no archive operation, whichever
\* workflow is enabled.
C16_BadConfigIsFatal ==
  (~cfg.readable \/ cfg.empty \/ ~cfg.mission_path)
  => /\ pc \in {<<"main", "config">>, <<"main", "exit">>}
     /\ pc = <<"main", "exit">> => exit_status = 1
     /\ \A i \in LogIndex :
          log[i].wf = "main" /\ log[i].ev \in {"notify_error", "exit"}
     /\ procs \in ProcTables
     /\ ~tempdir

\* C16 case: a configuration with both workflows enabled and no mission_path
\* has ended the run with status 1
C16_Witness ==
  /\ cfg.readable
  /\ ~cfg.empty
  /\ ~cfg.mission_path
  /\ cfg.hour_persistence_enabled
  /\ cfg.weather_rotation_enabled
  /\ exit_status = 1

\* The entries of workflow w that are steps, in the order logged
StepsOf(w) ==
  LET IsStep(e) == e.wf = w /\ StepRank(e.ev) > 0
  IN SelectSeq(log, IsStep)

\* C17: what a workflow does after a notification does not depend on how the
\* notification ended (sent, not sent, lost in delivery, or raised): the stop
\* notice is followed by the kill, the start notice by the return of True, an
\* error notice by the return of False; and a workflow returns without True
\* only after one of its own steps failed, never because of the notifier.
C17_NotifierNeverChangesOutcome ==
  /\ \A i \in LogIndex :
       (log[i].wf \in Workflows /\ log[i].ev = "notify_info")
       => /\ 1 < i /\ i < Len(log)
          /\ \/ log[i - 1].ev = "scan" /\ log[i + 1].ev = "kill"
             \/ /\ log[i - 1].ev = "popen" /\ log[i - 1].out = "ok"
                /\ log[i + 1] = Ev(log[i].wf, "return", "True", 0)
  /\ \A i \in LogIndex :
       (log[i].wf \in Workflows /\ log[i].ev = "notify_error")
       => /\ i < Len(log)
          /\ log[i + 1].wf = log[i].wf
          /\ log[i + 1].ev \in {"notify_error", "rmtree", "return"}
          /\ log[i + 1].ev = "return" => log[i + 1].out = "False"
  /\ \A w \in Workflows :
       LET steps == StepsOf(w)
       IN \A i \in LogIndex :
            (log[i].wf = w /\ log[i].ev = "return" /\ log[i].out # "True")
            => /\ Len(steps) > 0
               /\ steps[Len(steps)].out \in FailedOutcomes

\* C17 case: the stop notice raised, the kill followed it all the same, and
\* the time workflow ran to the archive update and returned True
C17_Witness ==
  /\ \E i \in LogIndex :
       /\ log[i] = Ev("time", "notify_info", "raised", 0)
       /\ log[i + 1].ev = "kill"
       /\ log[i + 1].out = "ok"
  /\ \E i \in LogIndex : log[i] = Ev("time", "7z_u", "ok", 0)
  /\ \E i \in LogIndex : log[i] = Ev("time", "return", "True", 0)

\* The number of calls of the notifier with severity sev among the entries
\* i..j of the history
Notices(i, j, sev) ==
  LET IsNotice(e) == e.ev = sev
  IN Len(SelectSeq(SubSeq(log, i, j), IsNotice))

\* C18: counted in calls of the notifier, from the scan that finds the server
\* to the end of the stop call, a kill that succeeded has one info notice and
\* no error notice and a kill that raised has one error notice; a scan that
\* finds nothing has no notice; from the spawn to the return, a successful
\* start has one info notice and no error notice, a failed one has one error
\* notice and no info notice.
C18_OneNoticePerSupervisorCall ==
  \A i \in LogIndex :
    /\ (log[i].ev = "scan" /\ log[i].out = "running")
       => /\ i + 2 <= Len(log)
          /\ log[i + 2].ev = "kill"
          /\ log[i + 2].out = "ok"
             => /\ i + 3 <= Len(log)
                /\ log[i + 3].ev = "sleep"
                /\ Notices(i, i + 3, "notify_info") = 1
                /\ Notices(i, i + 3, "notify_error") = 0
          /\ log[i + 2].out = "raised"
             => /\ i + 4 <= Len(log)
                /\ log[i + 4] = Ev(log[i].wf, "return", "False", 0)
                /\ Notices(i, i + 4, "notify_error") = 1
    /\ (log[i].ev = "scan" /\ log[i].out = "not_running" /\ i < Len(log))
       => log[i + 1].ev \notin {"notify_info", "notify_error"}
    /\ log[i].ev = "popen"
       => /\ i + 2 <= Len(log)
          /\ log[i + 2].ev = "return"
          /\ Notices(i, i + 2, "notify_info")
               = (IF log[i].out = "ok" THEN 1 ELSE 0)
          /\ Notices(i, i + 2, "notify_error")
               = (IF log[i].out = "ok" THEN 0 ELSE 1)

\* C18 case: the time workflow killed the server and started it again, and
\* the kill of the weather workflow then raised
C18_Witness ==
  /\ \E i \in LogIndex : log[i].wf = "time" /\ log[i].ev = "kill" /\ log[i].out = "ok"
  /\ \E i \in LogIndex : log[i].wf = "time" /\ log[i].ev = "popen" /\ log[i].out = "ok"
  /\ \E i \in LogIndex :
       /\ log[i].wf = "weather" /\ log[i].ev = "kill" /\ log[i].out = "raised"
       /\ log[i + 1].ev = "notify_error"

\* C19: a workflow that returns without True (False, or an exception that
\* leaves it) has called the notifier with an error message before it
\* returned; and the run ends with status 0 only if every enabled workflow
\* returned True, with a status other than 0 once one of them did not.
C19_FailureNotifiedThenNonZeroExit ==
  LET Returned(w, r) == \E i \in LogIndex : log[i] = Ev(w, "return", r, 0)
      Enabled(w) == IF w = "time" THEN cfg.hour_persistence_enabled
                                  ELSE cfg.weather_rotation_enabled
  IN /\ \A i \in LogIndex :
          (log[i].wf \in Workflows /\ log[i].ev = "return" /\ log[i].out # "True")
          => \E j \in 1..(i - 1) :
               log[j].wf = log[i].wf /\ log[j].ev = "notify_error"
     /\ pc = <<"main", "exit">>
        => /\ (\E w \in Workflows : Returned(w, "False") \/ Returned(w, "raise"))
              => exit_status # 0
           /\ (exit_status = 0 /\ cfg.readable /\ ~cfg.empty /\ cfg.mission_path)
              => \A w \in Workflows : Enabled(w) => Returned(w, "True")

\* The number of entries ev of workflow w among the first i entries of the
\* history
CountBefore(w, ev, i) ==
  LET IsIt(e) == e.wf = w /\ e.ev = ev
  IN Len(SelectSeq(SubSeq(log, 1, i), IsIt))

\* C20: whenever control is back in main() the temporary directory and the
\* file in it are gone; in the history every return of a workflow, with True,
\* with False or by an exception, and every start of the server comes after
\* the removal of each directory the workflow made; and the start step is
\* reached with the directory removed.
C20_ScratchRemovedOnEveryExit ==
  /\ pc[1] = "main" => ~tempdir /\ scratch = None
  /\ pc[2] = "start" => ~tempdir /\ scratch = None
  /\ \A i \in LogIndex :
       /\ log[i].ev \in {"return", "popen"}
          => CountBefore(log[i].wf, "rmtree", i)
               = CountBefore(log[i].wf, "mkdtemp", i)
       /\ log[i].ev = "rmtree"
          => CountBefore(log[i].wf, "rmtree", i)
               = CountBefore(log[i].wf, "mkdtemp", i)

\* C20 case: the time workflow made its directory and returned True after a
\* start of the server, the weather workflow made its directory and left it
\* by an exception
C20_Witness ==
  /\ pc[1] = "main"
  /\ \E i, j, k \in LogIndex :
       /\ i < j /\ j < k
       /\ log[i] = Ev("time", "mkdtemp", "ok", 0)
       /\ log[j] = Ev("time", "rmtree", "ok", 0)
       /\ log[k].wf = "time" /\ log[k].ev = "popen" /\ log[k].out = "ok"
  /\ \E i, j \in LogIndex :
       /\ i < j
       /\ log[i] = Ev("weather", "mkdtemp", "ok", 0)
       /\ log[j] = Ev("weather", "rmtree", "ok", 0)
       /\ log[j + 1] = Ev("weather", "return", "raise", 0)

\* The entries of the two workflows, in the order logged
WorkflowEvents ==
  LET IsWorkflow(e) == e.wf \in Workflows
  IN SelectSeq(log, IsWorkflow)

\* C21: with both workflows enabled no step of the time workflow follows a
\* step of the weather workflow; the weather workflow is entered only after
\* the time workflow started the server and returned True; and after a failed
\* time extraction or a time workflow that did not return True the weather
\* workflow has no step at all.
C21_WorkflowsNeverOverlap ==
  LET we == WorkflowEvents
      WeatherEntered == pc[1] = "weather" \/ \E i \in LogIndex : log[i].wf = "weather"
      TimeFailed ==
        \/ \E i \in LogIndex : log[i] = Ev("main", "time_source", "failed", 0)
        \/ \E i \in LogIndex : log[i] = Ev("main", "save_result", "raised", 0)
        \/ \E i \in LogIndex :
             log[i].wf = "time" /\ log[i].ev = "return" /\ log[i].out # "True"
  IN /\ \A i \in 1..(Len(we) - 1) : we[i].wf = "weather" => we[i + 1].wf = "weather"
     /\ pc[1] = "weather" => ret = "none"
     /\ (WeatherEntered /\ cfg.hour_persistence_enabled)
        => \E i \in 3..Len(we) :
             /\ we[i] = Ev("time", "return", "True", 0)
             /\ we[i - 2].wf = "time" /\ we[i - 2].ev = "popen" /\ we[i - 2].out = "ok"
             /\ i < Len(we) => we[i + 1].wf = "weather"
     /\ TimeFailed => ~WeatherEntered

\* C21 case: both workflows enabled, the time workflow returned True and the
\* weather workflow has run its steps up to its own start of the server
C21_Witness ==
  /\ cfg.hour_persistence_enabled /\ cfg.weather_rotation_enabled
  /\ \E i \in LogIndex : log[i] = Ev("time", "return", "True", 0)
  /\ \E i \in LogIndex : log[i].wf = "weather" /\ log[i].ev = "popen"

\* C22: the edit step of the time workflow reports no start_time exactly when
\* the descriptor has no line with a parsable start_time; it is then reached
\* after the stop step, the workflow returns False right after its error
\* notice and the removal of the directory, nothing was written to the
\* scratch file, the archive update was not invoked and the server was not
\* started.
C22_NoStartTimeFailsBeforeWrite ==
  \A i \in LogIndex :
    (log[i].wf = "time" /\ log[i].ev = "edit")
    => /\ log[i].out = "notfound" <=> ~ParseStartTime(text).some
       /\ log[i].out = "notfound"
          => /\ \E j \in 1..(i - 1) : log[j].wf = "time" /\ log[j].ev = "scan"
             /\ \A j \in 1..(i - 1) :
                  (log[j].wf = "time" /\ log[j].ev = "kill") => log[j].out = "ok"
             /\ i + 3 <= Len(log)
             /\ log[i + 1].ev = "notify_error"
             /\ log[i + 2] = Ev("time", "rmtree", "ok", 0)
             /\ log[i + 3] = Ev("time", "return", "False", 0)
             /\ \A j \in LogIndex :
                  log[j].wf = "time" => log[j].ev \notin {"write", "7z_u", "popen"}
             /\ scratch = None
             /\ pc[1] = "main"

\* C22 case: the server was running and was killed, the descriptor read has
\* no start_time, and the workflow has returned
C22_Witness ==
  /\ \E i \in LogIndex : log[i] = Ev("time", "edit", "notfound", 0)
  /\ \E i \in LogIndex : log[i].wf = "time" /\ log[i].ev = "kill" /\ log[i].out = "ok"
  /\ ~ParseStartTime(text).some
  /\ Matching = {}
  /\ pc = <<"main", "exit">>

\* The loop of _parse_start_time: the index of the line whose value is the
\* one returned, the last marker line that parses (0: none)
LastParsedIndex(lines) ==
  LET idx == {i \in 1..Len(lines) :
                HasStartTimeMarker(lines[i]) /\ ParseLineValue(lines[i]).some}
  IN IF idx = {} THEN 0 ELSE CHOOSE i \in idx : \A j \in idx : j <= i

\* C23: when the descriptor has a start_time that parses, the line the update
\* rewrites is the line the value was parsed from: the new text has the
\* canonical line with the new value at the index of the last marker line that
\* parses, and every other line is the line of the descriptor.
C23_RewrittenLineIsParsedLine ==
  (probe.fn = "start_time" /\ probe.done /\ ProbedStart.some)
  => LET lines == SplitLines(probe.text)
         parsed == LastParsedIndex(lines)
         new_lines == SplitLines(probe.new_text.val)
     IN /\ probe.new_text.some
        /\ Len(new_lines) = Len(lines)
        /\ \A i \in 1..Len(lines) :
             new_lines[i] = IF i = parsed
                              THEN CanonicalStartTimeLine(
                                     NewTime(ProbedStart.val, probe.seconds_to_add))
                              ELSE lines[i]

\* C24: the date-block replace leaves every character before the opening
\* label of the block and every character after its "}," and end-marker
\* comment as it was: the new text is the text before the label, the
\* canonical block, and the text after the block.
C24_DateReplaceKeepsSurroundings ==
  (probe.fn = "date" /\ probe.done)
  => /\ probe.new_text.some
     /\ LET d == BuildDateForSeason(probe.season, probe.today)
        IN probe.new_text.val
             = probe.prefix \o NewDateBlock(d[1], d[2], d[3]) \o probe.suffix

\* C25: the archive's mission entry changes in one kind of step only, the
\* update step whose 7-Zip call succeeded, which puts the scratch file into
\* the archive; every update call of a workflow is its only one and comes
\* right after the write of the transformed descriptor (start_time edited;
\* date, template choice and weather block done).  Every other step, the
\* failing ones included, leaves the archive as it was.
C25_ArchiveChangesOnlyByUpdate ==
  /\ [](\A i \in LogIndex :
          log[i].ev = "7z_u"
          => LET w == log[i].wf
             IN /\ i > 1
                /\ log[i - 1] = Ev(w, "write", "ok", 0)
                /\ CountBefore(w, "7z_u", i) = 1
                /\ IF w = "time"
                     THEN \E j \in 1..(i - 1) : log[j] = Ev(w, "edit", "ok", 0)
                     ELSE /\ \E j \in 1..(i - 1) : log[j] = Ev(w, "date", "ok", 0)
                          /\ \E j \in 1..(i - 1) : log[j] = Ev(w, "replace", "ok", 0))
  /\ [][archive' # archive
        => /\ pc[1] \in Workflows
           /\ pc[2] = "update"
           /\ pc' = <<pc[1], "start">>
           /\ scratch = Some(WriteText(text))
           /\ archive' = scratch
           /\ log' = log \o <<Ev(pc[1], "7z_u", "ok", 0), Ev(pc[1], "rmtree", "ok", 0)>>]_vars

\* C25 case: the time workflow updated the archive, then the weather workflow
\* stopped the server, made its edits and failed at the write of the scratch
\* file: the archive still holds what the time workflow put there
C25_Witness ==
  /\ \E i \in LogIndex : log[i] = Ev("time", "7z_u", "ok", 0)
  /\ \E i \in LogIndex : log[i] = Ev("weather", "replace", "ok", 0)
  /\ \E i \in LogIndex : log[i] = Ev("weather", "write", "raised", 0)
  /\ archive.some
  /\ archive.val # text
  /\ pc = <<"main", "exit">>

\* C26: whenever a workflow is about to invoke 7-Zip, to extract or to
\* update, the process table holds no process the server test selects.
C26_NoServerDuringArchiveTool ==
  (pc[1] \in Workflows /\ pc[2] \in {"extract", "update"}) => Matching = {}

\* C27: a workflow that returned True issued one start of the server, a
\* Popen that did not raise, as its last step, whether or not its scan had
\* found a server; a workflow that killed a server and then returned without
\* True issued no start that succeeded and the process it killed is not in
\* the process table.
C27_ServerStateAfterWorkflow ==
  \A i \in LogIndex :
    (log[i].wf \in Workflows /\ log[i].ev = "return")
    => LET w == log[i].wf
           IsStart(e) == e.wf = w /\ e.ev = "popen"
           IsStarted(e) == IsStart(e) /\ e.out = "ok"
           IsKilled(e) == e.wf = w /\ e.ev = "kill" /\ e.out = "ok"
           starts == SelectSeq(log, IsStart)
           killed == SelectSeq(log, IsKilled)
       IN /\ log[i].out = "True"
             => /\ Len(starts) = 1
                /\ starts[1].out = "ok"
                /\ i > 2
                /\ log[i - 2] = starts[1]
                /\ \/ \E j \in 1..Len(procs) : procs[j].pid = starts[1].n
                   \/ \E k \in (i + 1)..Len(log) :
                        log[k].ev = "kill" /\ log[k].out = "ok"
                          /\ log[k].n = starts[1].n
          /\ (log[i].out # "True" /\ Len(killed) > 0)
             => /\ SelectSeq(log, IsStarted) = <<>>
                /\ \A j \in 1..Len(procs) : procs[j].pid # killed[1].n

\* C27 case: the time workflow found no server and started one; the weather
\* workflow killed it and failed afterwards; the run ends with no server
C27_Witness ==
  /\ \E i \in LogIndex : log[i] = Ev("time", "scan", "not_running", 0)
  /\ \E i, j \in LogIndex :
       /\ log[i].wf = "time" /\ log[i].ev = "popen" /\ log[i].out = "ok"
       /\ log[j] = Ev("weather", "kill", "ok", log[i].n)
  /\ \E i \in LogIndex :
       log[i].wf = "weather" /\ log[i].ev = "return" /\ log[i].out = "False"
  /\ Matching = {}
  /\ pc = <<"main", "exit">>

\* The try of _convert_hms_to_seconds ends without an exception: three parts
\* between ":" and int() accepts each
HmsParses(hms) ==
  LET parts == Split(hms, ":")
  IN /\ Len(parts) = 3
     /\ PyInt(parts[1]).some /\ PyInt(parts[2]).some /\ PyInt(parts[3]).some

\* The seconds of the mission-time texts that parse as H:M:S
ValidatedSeconds == {ConvertHmsToSeconds(t) : t \in {u \in TimeTexts : HmsParses(u)}}

\* C28: the time workflow is entered, and so the server stopped and the
\* archive rewritten, only with a seconds value that comes from a mission-time
\* text that parses as H:M:S integers.
C28_OnlyValidatedSecondsReachWorkflow ==
  (pc[1] = "time" \/ \E i \in LogIndex : log[i].wf = "time")
  => seconds \in ValidatedSeconds

====
